---- MODULE Spec2Model ----
(***************************************************************************)
(* A model of the kadht node: identifier arithmetic (base.rs), the         *)
(* k-bucket and the routing table (routing.rs), and the single-threaded    *)
(* event loop with its operator channel (server.rs, main.rs).              *)
(*                                                                         *)
(* Identifiers are KEY_SIZE-bit naturals; the source uses 128 bits and     *)
(* K = 20, the model scales both down and keeps every formula in terms of  *)
(* KEY_SIZE and K.                                                         *)
(***************************************************************************)
EXTENDS Naturals, Sequences, FiniteSets, TLC

\* ------------------------------------------------------------------ bounds
\* base.rs:8 has KEY_SIZE = 128; the model's identifiers have KEY_SIZE bits.
KEY_SIZE == 3
\* server.rs:14 has K = 20; the model's buckets hold K peers.
K == 2
\* Number of datagrams decoded plus commands typed in one run.
MaxEvents == 3
\* Number of operations applied to the stand-alone k-bucket.
MaxBucketOps == 6
\* Number of insert and remove calls made on the stand-alone routing table.
MaxTableOps == 5
\* Number of nodes in the longest node list given to the codec.
MaxNodes == 2
\* Length in bytes of the longest frame that is cut short or given another tag.
MaxDamaged == 64

\* Duration::new(5, 0): the age, in seconds, beyond which a transaction is stale.
STALE_SECS == 5

\* ------------------------------------------------------- identifier arithmetic
RECURSIVE Pow2(_)
Pow2(n) == IF n = 0 THEN 1 ELSE 2 * Pow2(n - 1)

Ids == 0 .. (Pow2(KEY_SIZE) - 1)

\* bitwise exclusive or of two naturals
RECURSIVE xor(_, _)
xor(a, b) ==
    IF a = 0 THEN b
    ELSE IF b = 0 THEN a
    ELSE (((a % 2) + (b % 2)) % 2) + (2 * xor(a \div 2, b \div 2))

\* BitKey::distance
distance(a, b) == xor(a, b)

\* number of bits needed to write d (0 for d = 0)
RECURSIVE BitLen(_)
BitLen(d) == IF d = 0 THEN 0 ELSE 1 + BitLen(d \div 2)

\* u128::leading_zeros, on KEY_SIZE-bit words
leading_zeros(d) == KEY_SIZE - BitLen(d)

\* u128::trailing_zeros, on KEY_SIZE-bit words
RECURSIVE trailing_zeros(_)
trailing_zeros(d) ==
    IF d = 0 THEN KEY_SIZE
    ELSE IF d % 2 = 1 THEN 0
    ELSE 1 + trailing_zeros(d \div 2)

\* the ! operator on KEY_SIZE-bit words
bit_not(d) == (Pow2(KEY_SIZE) - 1) - d

\* Node: an identifier and the address it was last seen at
MkNode(i, a) == [id |-> i, udp_addr |-> a]

\* impl PartialEq for Node: two nodes are equal when their ids are
node_eq(x, y) == x.id = y.id

\* ------------------------------------------------------------ sequence helpers
\* Vec::remove / VecDeque::remove at a 1-based position
RemoveAt(s, i) == [j \in 1 .. (Len(s) - 1) |-> IF j < i THEN s[j] ELSE s[j + 1]]

\* Iterator::position: the first 1-based index whose element satisfies P, 0 if none
Position(s, P(_)) ==
    IF \E j \in 1 .. Len(s) : P(s[j])
    THEN CHOOSE j \in 1 .. Len(s) : P(s[j]) /\ \A h \in 1 .. (j - 1) : ~P(s[h])
    ELSE 0

Front(s) == SubSeq(s, 1, Len(s) - 1)
Last(s) == s[Len(s)]
Take(s, n) == SubSeq(s, 1, IF n < Len(s) THEN n ELSE Len(s))
Min(a, b) == IF a < b THEN a ELSE b

\* ------------------------------------------------------------------- KBucket
Inserted == [tag |-> "Inserted"]
Ping(node) == [tag |-> "Ping", node |-> node]

\* KBucket::new
KBucket_new(max_size) == [max_size |-> max_size, waiting |-> <<>>, data |-> <<>>]

\* KBucket::insert, had it named the newest active peer in its Ping
KBucket_insert_pings_newest(b, item) ==
    LET existing == Position(b.data, LAMBDA x : node_eq(x, item))
        d1 == IF existing # 0 THEN RemoveAt(b.data, existing) ELSE b.data
    IN  IF Len(d1) < b.max_size
        THEN [bucket |-> [b EXCEPT !.data = Append(d1, item)],
              result |-> Inserted]
        ELSE [bucket |-> [b EXCEPT !.data = d1, !.waiting = Append(b.waiting, item)],
              result |-> Ping(d1[Len(d1)])]

\* KBucket::insert, had it compared the length with <= max_size
KBucket_insert_off_by_one(b, item) ==
    LET existing == Position(b.data, LAMBDA x : node_eq(x, item))
        d1 == IF existing # 0 THEN RemoveAt(b.data, existing) ELSE b.data
    IN  IF Len(d1) <= b.max_size
        THEN [bucket |-> [b EXCEPT !.data = Append(d1, item)],
              result |-> Inserted]
        ELSE [bucket |-> [b EXCEPT !.data = d1, !.waiting = Append(b.waiting, item)],
              result |-> Ping(d1[1])]

\* KBucket::insert, had it left a peer it already holds where it is
KBucket_insert_keeps_place(b, item) ==
    LET existing == Position(b.data, LAMBDA x : node_eq(x, item))
    IN  IF existing # 0
        THEN [bucket |-> [b EXCEPT !.data[existing] = item], result |-> Inserted]
        ELSE IF Len(b.data) < b.max_size
        THEN [bucket |-> [b EXCEPT !.data = Append(b.data, item)],
              result |-> Inserted]
        ELSE [bucket |-> [b EXCEPT !.waiting = Append(b.waiting, item)],
              result |-> Ping(b.data[1])]

\* KBucket::insert: the bucket after the call and the value returned
KBucket_insert(b, item) ==
    LET existing == Position(b.data, LAMBDA x : node_eq(x, item))
        d1 == IF existing # 0 THEN RemoveAt(b.data, existing) ELSE b.data
    IN  IF Len(d1) < b.max_size
        THEN [bucket |-> [b EXCEPT !.data = Append(d1, item)],
              result |-> Inserted]
        ELSE [bucket |-> [b EXCEPT !.data = d1, !.waiting = Append(b.waiting, item)],
              result |-> Ping(d1[1])]

\* KBucket::remove, had it promoted the waiting peer with push_front
KBucket_remove_promotes_front(b, id) ==
    LET existing == Position(b.data, LAMBDA x : x.id = id)
    IN  IF existing = 0 THEN b
        ELSE LET d1 == RemoveAt(b.data, existing)
             IN  IF b.waiting # <<>>
                 THEN [b EXCEPT !.data = <<Last(b.waiting)>> \o d1,
                                !.waiting = Front(b.waiting)]
                 ELSE [b EXCEPT !.data = d1]

\* KBucket::remove
KBucket_remove(b, id) ==
    LET existing == Position(b.data, LAMBDA x : x.id = id)
    IN  IF existing = 0 THEN b
        ELSE LET d1 == RemoveAt(b.data, existing)
             IN  IF b.waiting # <<>>
                 THEN [b EXCEPT !.data = Append(d1, Last(b.waiting)),
                                !.waiting = Front(b.waiting)]
                 ELSE [b EXCEPT !.data = d1]

\* stable insertion of x into a list sorted by ascending distance to target
RECURSIVE InsertSorted(_, _, _)
InsertSorted(s, x, target) ==
    IF s = <<>> THEN <<x>>
    ELSE IF distance(x.id, target) < distance(Head(s).id, target)
         THEN <<x>> \o s
         ELSE <<Head(s)>> \o InsertSorted(Tail(s), x, target)

\* sort_by_cached_key(|node| node.id.distance(target)): a stable sort
RECURSIVE SortByDistance(_, _)
SortByDistance(s, target) ==
    IF s = <<>> THEN <<>>
    ELSE InsertSorted(SortByDistance(Front(s), target), Last(s), target)

\* KBucket::k_closest: the nodes pushed to buf; the count returned is their number
KBucket_k_closest(b, target, k) == Take(SortByDistance(b.data, target), k)

\* -------------------------------------------------------------- RoutingTable
\* RoutingTable::new; buckets[i] of the source is buckets[i + 1] here
RoutingTable_new(this_node, bucket_size) ==
    [this_node |-> this_node,
     buckets |-> [i \in 1 .. KEY_SIZE |-> KBucket_new(bucket_size)]]

\* RoutingTable::insert, had it counted the bucket index from the least
\* significant bit
RoutingTable_insert_counts_from_lsb(t, node) ==
    IF node_eq(t.this_node, node)
    THEN [table |-> t, result |-> Inserted]
    ELSE LET i == KEY_SIZE - 1 - leading_zeros(distance(t.this_node.id, node.id))
             r == KBucket_insert(t.buckets[i + 1], node)
         IN  [table |-> [t EXCEPT !.buckets[i + 1] = r.bucket], result |-> r.result]

\* RoutingTable::insert
RoutingTable_insert(t, node) ==
    IF node_eq(t.this_node, node)
    THEN [table |-> t, result |-> Inserted]
    ELSE LET i == leading_zeros(distance(t.this_node.id, node.id))
             r == KBucket_insert(t.buckets[i + 1], node)
         IN  [table |-> [t EXCEPT !.buckets[i + 1] = r.bucket], result |-> r.result]

\* RoutingTable::remove
RoutingTable_remove(t, id) ==
    IF t.this_node.id = id THEN t
    ELSE LET i == leading_zeros(distance(t.this_node.id, id))
         IN  [t EXCEPT !.buckets[i + 1] = KBucket_remove(t.buckets[i + 1], id)]

\* The first loop of RoutingTable::k_closest (routing.rs:240-245).  The shift
\* amount KEY_SIZE - i equals the word size when i = 0: a build with overflow
\* checks panics there, a build without them masks the amount to 0.  Without
\* checks the most significant bit is never cleared, so the loop ends only when
\* to_take reaches 0, and never ends once bucket 0 yields nothing.
RECURSIVE k_closest_loop1(_, _, _, _, _, _)
k_closest_loop1(t, target, dist, to_take, buf, checks) ==
    IF dist # 0 /\ to_take > 0
    THEN LET i == leading_zeros(dist)
             got == KBucket_k_closest(t.buckets[i + 1], target, to_take)
             shift == KEY_SIZE - i
         IN  IF shift >= KEY_SIZE
             THEN IF checks
                  THEN [outcome |-> "panic", buf |-> buf \o got, to_take |-> to_take - Len(got)]
                  ELSE IF Len(got) = 0
                       THEN [outcome |-> "hang", buf |-> buf, to_take |-> to_take]
                       ELSE k_closest_loop1(t, target, xor(dist, Pow2((shift % KEY_SIZE))),
                                            to_take - Len(got), buf \o got, checks)
             ELSE k_closest_loop1(t, target, xor(dist, Pow2(shift)),
                                  to_take - Len(got), buf \o got, checks)
    ELSE [outcome |-> "ok", buf |-> buf, to_take |-> to_take]

\* The second loop of RoutingTable::k_closest (routing.rs:250-255)
RECURSIVE k_closest_loop2(_, _, _, _, _)
k_closest_loop2(t, target, n_dist, to_take, buf) ==
    IF n_dist # 0 /\ to_take > 0
    THEN LET i == trailing_zeros(n_dist)
             bucket == KEY_SIZE - 1 - i
             got == KBucket_k_closest(t.buckets[bucket + 1], target, to_take)
         IN  k_closest_loop2(t, target, xor(n_dist, Pow2(i)), to_take - Len(got), buf \o got)
    ELSE buf

\* RoutingTable::k_closest: outcome "ok" with the nodes returned, or "panic" /
\* "hang" when the call never returns.  checks: the build has overflow checks.
k_closest(t, target, k, checks) ==
    LET d == distance(t.this_node.id, target)
        r1 == k_closest_loop1(t, target, d, k, <<>>, checks)
    IN  IF r1.outcome # "ok" THEN [outcome |-> r1.outcome, nodes |-> <<>>]
        ELSE LET buf2 == IF r1.to_take > 0 THEN Append(r1.buf, t.this_node) ELSE r1.buf
                 take2 == IF r1.to_take > 0 THEN r1.to_take - 1 ELSE 0
             IN  [outcome |-> "ok",
                  nodes |-> k_closest_loop2(t, target, bit_not(d), take2, buf2)]

\* ------------------------------------------------------------------ messages
\* Message::create: a message with a transaction id drawn from the random
\* source (tx) and our node id
Message_create(tx, this_node_id, payload) ==
    [header |-> [node_id |-> this_node_id, transaction_id |-> tx], payload |-> payload]

\* Message::response: a message with the transaction id of the call answered
\* and our node id
Message_response(transaction_id, node_id, payload) ==
    [header |-> [node_id |-> node_id, transaction_id |-> transaction_id],
     payload |-> payload]

\* RPCPayload
PingP == [tag |-> "Ping"]
PingRespP == [tag |-> "PingResp"]
FindValueP(key) == [tag |-> "FindValue", key |-> key]
FindValueRespP(val) == [tag |-> "FindValueResp", val |-> val]
FindValueNodesP(nodes) == [tag |-> "FindValueNodes", nodes |-> nodes]
FindNodeP(id) == [tag |-> "FindNode", id |-> id]
FindNodeRespP(nodes) == [tag |-> "FindNodeResp", nodes |-> nodes]
StoreP(key, val) == [tag |-> "Store", key |-> key, val |-> val]
StoreRespP == [tag |-> "StoreResp"]

\* ToServerMsg and FromServerMsg
ToStore(key, val) == [tag |-> "Store", key |-> key, val |-> val]
ToGet(key) == [tag |-> "Get", key |-> key]
FromStoreResp == [tag |-> "StoreResp"]
FromGetResp(value) == [tag |-> "GetResp", value |-> value]

\* Option<String>
None == [tag |-> "None"]
Some(v) == [tag |-> "Some", val |-> v]

\* ---------------------------------------------------------------- wire codec
\* const BITKEY_BYTES
BITKEY_BYTES == 16
\* std::mem::size_of::<u64>(), the width of a TransactionID
TXID_BYTES == 8
\* std::mem::size_of::<Header>(): a u128 and a u64 field. The struct has the
\* default representation, so its size is the build's: 24 bytes where u128 is
\* aligned to 8 bytes, 32 bytes where it is aligned to 16.
HeaderSizes == {24, 32}

\* Result: Ok(v), Err(e), and a panic of the decoding thread
Ok(v) == [ok |-> TRUE, val |-> v]
Err(e) == [ok |-> FALSE, err |-> e]
Panicked == [ok |-> FALSE, err |-> "panic"]

\* &data[n..]
SkipBytes(data, n) == SubSeq(data, n + 1, Len(data))

\* the loops of write_bitkey and write_transaction_id: buf[i] = num as u8 and
\* num >>= 8, for i from n - 1 down to 0
RECURSIVE be_bytes(_, _)
be_bytes(num, n) ==
    IF n = 0 THEN <<>> ELSE Append(be_bytes(num \div 256, n - 1), num % 256)

\* the number whose big-endian digits in base 256 are bytes
RECURSIVE be_value(_)
be_value(bytes) ==
    IF bytes = <<>> THEN 0 ELSE (256 * be_value(Front(bytes))) + Last(bytes)

\* bytes without its leading zeros
RECURSIVE significant(_)
significant(bytes) ==
    IF bytes = <<>> \/ Head(bytes) # 0 THEN bytes ELSE significant(Tail(bytes))

\* u128::from_be_bytes, u64::from_be_bytes, u16::from_be_bytes; a value of
\* more than three significant bytes is kept as its digits
from_be_bytes(bytes) ==
    IF Len(significant(bytes)) <= 3 THEN be_value(bytes)
    ELSE [digits |-> significant(bytes)]

\* the number of bytes of the UTF-8 character a byte starts, 0 if it starts none
utf8_width(b) ==
    IF b < 128 THEN 1
    ELSE IF b \in 194 .. 223 THEN 2
    ELSE IF b \in 224 .. 239 THEN 3
    ELSE IF b \in 240 .. 244 THEN 4
    ELSE 0

\* String::from_utf8 succeeds: every byte that is not a continuation byte
\* starts a character that is complete, and every continuation byte belongs
\* to the character started at most three bytes before it
is_utf8(bytes) ==
    LET cont(i) == bytes[i] \in 128 .. 191
    IN  \A i \in 1 .. Len(bytes) :
          IF cont(i)
          THEN \E j \in 1 .. 3 :
                 /\ i - j >= 1
                 /\ ~cont(i - j)
                 /\ utf8_width(bytes[i - j]) > j
                 /\ \A h \in (i - j + 1) .. i : cont(h)
          ELSE LET b == bytes[i]
                   n == utf8_width(b)
               IN  /\ n # 0
                   /\ i + n - 1 <= Len(bytes)
                   /\ \A h \in (i + 1) .. (i + n - 1) : cont(h)
                   /\ b = 224 => bytes[i + 1] >= 160
                   /\ b = 237 => bytes[i + 1] <= 159
                   /\ b = 240 => bytes[i + 1] >= 144
                   /\ b = 244 => bytes[i + 1] <= 143

\* SocketAddr::new(ip, port); IpAddr::V4 and IpAddr::V6 hold their octets
IpV4(octets) == [v |-> 4, octets |-> octets]
IpV6(octets) == [v |-> 6, octets |-> octets]
SocketAddr_new(ip, port) == [ip |-> ip, port |-> port]

\* fn try_bitkey_from: data[..len] panics when data is shorter than a BitKey
try_bitkey_from(data) ==
    IF Len(data) < BITKEY_BYTES THEN Panicked
    ELSE Ok(from_be_bytes(SubSeq(data, 1, BITKEY_BYTES)))

\* fn try_string_from: the string and the number of bytes consumed
try_string_from(data) ==
    IF data = <<>> THEN Err("InsufficientLength")
    ELSE LET byte_count == Head(data)
             rest == Tail(data)
         IN  IF Len(rest) < byte_count THEN Err("InsufficientLength")
             ELSE IF ~is_utf8(rest) THEN Err("InvalidString")
             ELSE Ok([string |-> rest, read_count |-> byte_count + 1])

\* the while loop of try_nodes_from
RECURSIVE try_nodes_loop(_, _, _)
try_nodes_loop(buf, data, capacity) ==
    IF Len(buf) >= capacity THEN Ok(buf)
    ELSE LET start_len == 1 + BITKEY_BYTES
         IN  IF Len(data) < start_len THEN Err("InsufficientLength")
             ELSE LET id == try_bitkey_from(data).val
                      ip_type == data[BITKEY_BYTES + 1]
                      data1 == SkipBytes(data, start_len)
                      ip_len == IF ip_type = 4 THEN 4 ELSE 16
                      end_len == ip_len + 2
                  IN  IF Len(data1) < end_len THEN Err("InsufficientLength")
                      ELSE LET ip == IF ip_type = 4
                                     THEN IpV4(SubSeq(data1, 1, ip_len))
                                     ELSE IpV6(SubSeq(data1, 1, ip_len))
                               port == from_be_bytes(SubSeq(data1, ip_len + 1, end_len))
                               udp_addr == SocketAddr_new(ip, port)
                           IN  try_nodes_loop(Append(buf, MkNode(id, udp_addr)),
                                              SkipBytes(data1, end_len), capacity)

\* fn try_nodes_from
try_nodes_from(data) ==
    IF data = <<>> THEN Err("InsufficientLength")
    ELSE try_nodes_loop(<<>>, Tail(data), Head(data))

\* impl TryFrom<&[u8]> for TransactionID: data[..8] panics on a shorter slice
TransactionID_try_from(data) ==
    IF Len(data) < TXID_BYTES THEN Panicked
    ELSE Ok(from_be_bytes(SubSeq(data, 1, TXID_BYTES)))

\* impl TryFrom<&[u8]> for Header, in a build where a Header has header_size bytes
Header_try_from(data, header_size) ==
    IF Len(data) < header_size THEN Err("InsufficientLength")
    ELSE LET start == SubSeq(data, 1, BITKEY_BYTES)
             rest == SkipBytes(data, BITKEY_BYTES)
         IN  Ok([node_id |-> try_bitkey_from(start).val,
                 transaction_id |-> TransactionID_try_from(rest).val])

\* impl TryFrom<&[u8]> for RPCPayload
RPCPayload_try_from(data) ==
    IF data = <<>> THEN Err("InsufficientLength")
    ELSE LET msg_type == Head(data)
             rest == Tail(data)
         IN  CASE msg_type = 1 -> Ok(PingP)
               [] msg_type = 2 -> Ok(PingRespP)
               [] msg_type = 3 ->
                    LET id == try_bitkey_from(rest)
                    IN  IF id.ok THEN Ok(FindNodeP(id.val)) ELSE id
               [] msg_type = 4 ->
                    LET nodes == try_nodes_from(rest)
                    IN  IF nodes.ok THEN Ok(FindNodeRespP(nodes.val)) ELSE nodes
               [] msg_type = 5 ->
                    LET key == try_string_from(rest)
                    IN  IF ~key.ok THEN key
                        ELSE LET val == try_string_from(SkipBytes(rest, key.val.read_count))
                             IN  IF ~val.ok THEN val
                                 ELSE Ok(StoreP(key.val.string, val.val.string))
               [] msg_type = 6 -> Ok(StoreRespP)
               [] msg_type = 7 ->
                    LET key == try_string_from(rest)
                    IN  IF key.ok THEN Ok(FindValueP(key.val.string)) ELSE key
               [] msg_type = 8 ->
                    LET nodes == try_nodes_from(rest)
                    IN  IF nodes.ok THEN Ok(FindValueNodesP(nodes.val)) ELSE nodes
               [] msg_type = 9 ->
                    LET val == try_string_from(rest)
                    IN  IF val.ok THEN Ok(FindValueRespP(val.val.string)) ELSE val
               [] OTHER -> Err("UnknownMessageType")

\* impl TryFrom<&[u8]> for Message
Message_try_from(data, header_size) ==
    LET header == Header_try_from(data, header_size)
    IN  IF ~header.ok THEN header
        ELSE LET payload == RPCPayload_try_from(SkipBytes(data, header_size))
             IN  IF ~payload.ok THEN payload
                 ELSE Ok([header |-> header.val, payload |-> payload.val])

\* fn write_bitkey and fn write_transaction_id: the bytes they put in buf
write_bitkey(key) == be_bytes(key, BITKEY_BYTES)
write_transaction_id(id) == be_bytes(id, TXID_BYTES)

\* fn write_string: the length as one byte, then the bytes of the string
write_string(string) == <<Len(string) % 256>> \o string

\* the body of the for loop of write_nodes, had it written the port's low
\* byte first
write_node_port_low_first(node) ==
    LET version == IF node.udp_addr.ip.v = 4 THEN 4 ELSE 6
        port == node.udp_addr.port
    IN  write_bitkey(node.id) \o <<version>> \o node.udp_addr.ip.octets
            \o <<port % 256, (port \div 256) % 256>>

\* the body of the for loop of write_nodes
write_node(node) ==
    LET version == IF node.udp_addr.ip.v = 4 THEN 4 ELSE 6
        port == node.udp_addr.port
    IN  write_bitkey(node.id) \o <<version>> \o node.udp_addr.ip.octets
            \o <<(port \div 256) % 256, port % 256>>

\* fn write_nodes: the count as one byte, then each node
RECURSIVE write_node_seq(_)
write_node_seq(nodes) ==
    IF nodes = <<>> THEN <<>> ELSE write_node(Head(nodes)) \o write_node_seq(Tail(nodes))

write_nodes(nodes) == <<Len(nodes) % 256>> \o write_node_seq(nodes)

\* the value fn write_string returns
write_string_count(string) == Len(string) + 1

\* the value fn write_nodes returns: count starts at 1 and grows by
\* written + 19 for each node
RECURSIVE write_nodes_count(_)
write_nodes_count(nodes) ==
    IF nodes = <<>> THEN 1
    ELSE LET written == IF Last(nodes).udp_addr.ip.v = 4 THEN 4 ELSE 16
         IN  write_nodes_count(Front(nodes)) + written + 19

\* the value Message::write returns
Message_write_count(m) ==
    LET p == m.payload
    IN  CASE p.tag \in {"Ping", "PingResp", "StoreResp"} -> 25
          [] p.tag = "FindNode" -> 41
          [] p.tag \in {"FindNodeResp", "FindValueNodes"} -> write_nodes_count(p.nodes) + 25
          [] p.tag = "Store" -> write_string_count(p.key) + write_string_count(p.val) + 25
          [] p.tag = "FindValue" -> write_string_count(p.key) + 25
          [] p.tag = "FindValueResp" -> write_string_count(p.val) + 25

\* Message::write: the bytes put in buf, in the order of their positions
Message_write(m) ==
    LET p == m.payload
        body == CASE p.tag = "Ping" -> <<1>>
                  [] p.tag = "PingResp" -> <<2>>
                  [] p.tag = "FindNode" -> <<3>> \o write_bitkey(p.id)
                  [] p.tag = "FindNodeResp" -> <<4>> \o write_nodes(p.nodes)
                  [] p.tag = "Store" -> <<5>> \o write_string(p.key) \o write_string(p.val)
                  [] p.tag = "StoreResp" -> <<6>>
                  [] p.tag = "FindValue" -> <<7>> \o write_string(p.key)
                  [] p.tag = "FindValueNodes" -> <<8>> \o write_nodes(p.nodes)
                  [] p.tag = "FindValueResp" -> <<9>> \o write_string(p.val)
    IN  write_bitkey(m.header.node_id) \o write_transaction_id(m.header.transaction_id)
            \o body

\* ------------------------------------------------------------- the input sets
Keys == {"a", "b"}
Values == {"x", "y"}
\* BitKey::from_hash (SHA-1, an external collaborator): a fixed map to identifiers
from_hash(key) == IF key = "a" THEN 5 ELSE 2
\* the identifier and address of this node (Node::create draws the id at random)
LocalIds == {0}
LocalAddr == "self"
\* the peers heard from: the node id in the header and the datagram's source
Peers == {MkNode(4, "p"), MkNode(5, "q"), MkNode(6, "p")}
\* the transaction ids the random source draws and inbound headers carry
TxIds == {1, 2}
\* the seconds that may pass while one recv_from call blocks
Elapses == {0, 5}
\* node lists carried by inbound FindNodeResp / FindValueNodes
NodeLists == {<<MkNode(4, "p")>>, <<MkNode(7, "p")>>}
\* targets of inbound FindNode: this node's id and another
Targets == {0, 5}
\* keys and values of inbound Store
StoredKeys == {"a"}
Payloads ==
    {PingP, PingRespP, StoreRespP}
    \cup {FindValueP(k) : k \in Keys}
    \cup {FindValueRespP(v) : v \in {"x"}}
    \cup {FindValueNodesP(n) : n \in NodeLists}
    \cup {FindNodeP(i) : i \in Targets}
    \cup {FindNodeRespP(n) : n \in NodeLists}
    \cup {StoreP(k, v) : k \in StoredKeys, v \in Values}
\* the address a peer's datagrams come from
SrcOf(id) == (CHOOSE n \in Peers : n.id = id).udp_addr
\* every decoded message the network may deliver
Messages ==
    {[header |-> [node_id |-> i, transaction_id |-> tx], payload |-> p] :
        i \in {n.id : n \in Peers}, tx \in TxIds, p \in Payloads}
\* the commands the operator may type
Commands == {ToStore("a", "x"), ToGet("a")}

\* ---------------------------------------------------------- TransactionTable
\* TransactionTable::insert: tx -> (Instant::now(), header.node_id); the instant
\* is kept as the entry's age in seconds
TransactionTable_insert(tt, header) ==
    [t \in DOMAIN tt \cup {header.transaction_id} |->
        IF t = header.transaction_id THEN [age |-> 0, key |-> header.node_id] ELSE tt[t]]

\* TransactionTable::contains
TransactionTable_contains(tt, transaction_id) == transaction_id \in DOMAIN tt

\* TransactionTable::remove: the table without the entry
TransactionTable_remove(tt, transaction_id) ==
    [t \in DOMAIN tt \ {transaction_id} |-> tt[t]]

\* the entries dropped, had remove_stale compared the age with >=
StaleTxs_at_deadline(tt) == {t \in DOMAIN tt : tt[t].age >= STALE_SECS}

\* the entries that TransactionTable::remove_stale drops
StaleTxs(tt) == {t \in DOMAIN tt : tt[t].age > STALE_SECS}

\* TransactionTable::remove_stale: the entries retained
TransactionTable_remove_stale(tt) == [t \in DOMAIN tt \ StaleTxs(tt) |-> tt[t]]

\* dt seconds pass: every entry ages (an age beyond STALE_SECS + 1 is not told apart)
Aged(tt, dt) ==
    [t \in DOMAIN tt |->
        [tt[t] EXCEPT !.age = Min(tt[t].age + dt, STALE_SECS + 1)]]

\* HashMap::get on the key store
key_store_get(ks, key) == IF key \in DOMAIN ks THEN Some(ks[key]) ELSE None

\* HashMap::insert on the key store
key_store_insert(ks, key, val) ==
    [k \in DOMAIN ks \cup {key} |-> IF k = key THEN val ELSE ks[k]]

EmptyMap == [k \in {} |-> 0]
NoQuery == [tag |-> "None"]

\* --------------------------------------------------------------------- Query
Empty == "Empty"
Started == "Started"
Finished == "Finished"

\* QueryIntention
IntentStore(key, val) == [tag |-> "Store", key |-> key, val |-> val]
IntentGet(key) == [tag |-> "Get", key |-> key]

\* NodeQuery::new
NodeQuery_new(node, target) ==
    [node |-> node, status |-> Empty, distance |-> distance(node.id, target)]

\* Query::new
Query_new(intention) ==
    [tag |-> "Some", target |-> from_hash(intention.key), intention |-> intention,
     closest |-> <<>>, transactions |-> EmptyMap, final_k |-> FALSE]

\* <[NodeQuery]>::binary_search_by on the distances of closest: left and right
\* are the 0-based ends of the part still searched; Ok(index) when the probed
\* entry has distance d, else Err(index where the search ended), 1-based
RECURSIVE binary_search_by(_, _, _, _)
binary_search_by(closest, d, left, right) ==
    IF left >= right THEN [ok |-> FALSE, index |-> left + 1]
    ELSE LET mid == left + ((right - left) \div 2)
         IN  IF closest[mid + 1].distance < d
             THEN binary_search_by(closest, d, mid + 1, right)
             ELSE IF closest[mid + 1].distance > d
                  THEN binary_search_by(closest, d, left, mid)
                  ELSE [ok |-> TRUE, index |-> mid + 1]

\* Query::find_node
Query_find_node(q, key) ==
    binary_search_by(q.closest, distance(key, q.target), 0, Len(q.closest))

\* Vec::insert at a 1-based position
InsertAt(s, i, e) == SubSeq(s, 1, i - 1) \o <<e>> \o SubSeq(s, i, Len(s))

\* Query::add_node, had it not dropped the entry beyond the K-th
Query_add_node_keeps_all(q, node) ==
    LET f == Query_find_node(q, node.id)
    IN  IF ~f.ok
        THEN [query |-> [q EXCEPT !.closest =
                            InsertAt(@, f.index, NodeQuery_new(node, q.target))],
              added |-> TRUE]
        ELSE [query |-> q, added |-> FALSE]

\* Query::add_node: the query after the call and the value returned
Query_add_node(q, node) ==
    LET f == Query_find_node(q, node.id)
    IN  IF ~f.ok
        THEN LET c1 == InsertAt(q.closest, f.index, NodeQuery_new(node, q.target))
                 c2 == IF Len(c1) > K THEN Front(c1) ELSE c1
             IN  [query |-> [q EXCEPT !.closest = c2], added |-> TRUE]
        ELSE [query |-> q, added |-> FALSE]

\* Query::update_status
Query_update_status(q, target, status) ==
    LET f == Query_find_node(q, target)
    IN  IF f.ok THEN [q EXCEPT !.closest[f.index].status = status] ELSE q

\* Query::remove
Query_remove(q, key) ==
    LET f == Query_find_node(q, key)
    IN  IF f.ok THEN [q EXCEPT !.closest = RemoveAt(q.closest, f.index)] ELSE q

\* Query::get_closest: the 1-based index of the first Empty entry, 0 for None
Query_get_closest(q) == Position(q.closest, LAMBDA e : e.status = Empty)

\* Query::all_done
Query_all_done(q) == \A j \in 1 .. Len(q.closest) : q.closest[j].status = Finished

\* QueryIntention::key_to_find
key_to_find(intention) == IF intention.tag = "Get" THEN Some(intention.key) ELSE None

\* --------------------------------------------------------------- ServerHandle
\* The handlers below take and return the fields of ServerHandle as a record
\* s = [table, key_store, query, keep_alives, out, status]: out lists the
\* datagrams handed to the socket, status is "running" until a handler fails
\* ("io_error": a send returned Err; "panicked" / "hung": k_closest did not return).

\* ServerHandle::send_message; fail: send_to returns an error
send_message(s, message, addr, fail) ==
    IF fail THEN [s EXCEPT !.status = "io_error"]
    ELSE [s EXCEPT !.out = Append(@, [to |-> addr, msg |-> message])]

\* ServerHandle::continue_query
continue_query(s, node, tx, fail) ==
    LET q1 == Query_update_status(s.query, node.id, Started)
        ktf == key_to_find(q1.intention)
        payload == IF ktf.tag = "Some" THEN FindValueP(ktf.val) ELSE FindNodeP(q1.target)
        message == Message_create(tx, s.table.this_node.id, payload)
        q2 == [q1 EXCEPT !.transactions = TransactionTable_insert(@, message.header)]
    IN  send_message([s EXCEPT !.query = q2], message, node.udp_addr, fail)

\* for node in contact_nodes { self.continue_query(node)?; }: txs[j] is the
\* transaction id drawn for the j-th node, nfail the position of the send that
\* fails (0: none)
RECURSIVE contact_all(_, _, _, _, _)
contact_all(s, contact_nodes, j, txs, nfail) ==
    IF j > Len(contact_nodes) THEN s
    ELSE LET s1 == continue_query(s, contact_nodes[j], txs[j], nfail = j)
         IN  IF s1.status # "running" THEN s1
             ELSE contact_all(s1, contact_nodes, j + 1, txs, nfail)

\* for node in nodes { added = query.add_node(*node) || added; }
RECURSIVE add_nodes(_, _, _)
add_nodes(q, nodes, added) ==
    IF nodes = <<>> THEN [query |-> q, added |-> added]
    ELSE LET r == Query_add_node(q, Head(nodes))
         IN  add_nodes(r.query, Tail(nodes), r.added \/ added)

\* the shortlist entries still Empty, closest first
RECURSIVE empty_nodes(_)
empty_nodes(closest) ==
    IF closest = <<>> THEN <<>>
    ELSE (IF Head(closest).status = Empty THEN <<Head(closest).node>> ELSE <<>>)
         \o empty_nodes(Tail(closest))

\* ServerHandle::handle_nodes, had it taken a response whatever its transaction
handle_nodes_accepts_all(s, header, nodes, txs, nfail) ==
    IF s.query.tag = "None" THEN s
    ELSE LET q1 == [s.query EXCEPT
                       !.transactions = TransactionTable_remove(@, header.transaction_id)]
             r == add_nodes(q1, nodes, FALSE)
             q2 == Query_update_status(r.query, header.node_id, Finished)
             next == Query_get_closest(q2)
         IN  IF r.added
             THEN IF next # 0
                  THEN contact_all([s EXCEPT !.query = q2], <<q2.closest[next].node>>,
                                   1, txs, nfail)
                  ELSE [s EXCEPT !.query = NoQuery]
             ELSE IF ~q2.final_k
                  THEN contact_all([s EXCEPT !.query = [q2 EXCEPT !.final_k = TRUE]],
                                   empty_nodes(q2.closest), 1, txs, nfail)
                  ELSE IF Query_all_done(q2)
                       THEN [s EXCEPT !.query = NoQuery]
                       ELSE [s EXCEPT !.query = q2]

\* ServerHandle::handle_nodes, had the final fan-out not set final_k
handle_nodes_forgets_final_k(s, header, nodes, txs, nfail) ==
    IF s.query.tag = "None" THEN s
    ELSE IF ~TransactionTable_contains(s.query.transactions, header.transaction_id) THEN s
    ELSE LET q1 == [s.query EXCEPT
                       !.transactions = TransactionTable_remove(@, header.transaction_id)]
             r == add_nodes(q1, nodes, FALSE)
             q2 == Query_update_status(r.query, header.node_id, Finished)
             next == Query_get_closest(q2)
         IN  IF r.added
             THEN IF next # 0
                  THEN contact_all([s EXCEPT !.query = q2], <<q2.closest[next].node>>,
                                   1, txs, nfail)
                  ELSE [s EXCEPT !.query = NoQuery]
             ELSE IF ~q2.final_k
                  THEN contact_all([s EXCEPT !.query = q2],
                                   empty_nodes(q2.closest), 1, txs, nfail)
                  ELSE IF Query_all_done(q2)
                       THEN [s EXCEPT !.query = NoQuery]
                       ELSE [s EXCEPT !.query = q2]

\* ServerHandle::handle_nodes
handle_nodes(s, header, nodes, txs, nfail) ==
    IF s.query.tag = "None" THEN s
    ELSE IF ~TransactionTable_contains(s.query.transactions, header.transaction_id) THEN s
    ELSE LET q1 == [s.query EXCEPT
                       !.transactions = TransactionTable_remove(@, header.transaction_id)]
             r == add_nodes(q1, nodes, FALSE)
             q2 == Query_update_status(r.query, header.node_id, Finished)
             next == Query_get_closest(q2)
         IN  IF r.added
             THEN IF next # 0
                  THEN contact_all([s EXCEPT !.query = q2], <<q2.closest[next].node>>,
                                   1, txs, nfail)
                  ELSE [s EXCEPT !.query = NoQuery]
             ELSE IF ~q2.final_k
                  THEN contact_all([s EXCEPT !.query = [q2 EXCEPT !.final_k = TRUE]],
                                   empty_nodes(q2.closest), 1, txs, nfail)
                  ELSE IF Query_all_done(q2)
                       THEN [s EXCEPT !.query = NoQuery]
                       ELSE [s EXCEPT !.query = q2]

\* the match on message.payload in ServerHandle::handle_message (server.rs:241-285)
dispatch(s, message, src, fail, txs, nfail, checks) ==
    LET p == message.payload
        tx == message.header.transaction_id
        this_id == s.table.this_node.id
        reply(payload) == send_message(s, Message_response(tx, this_id, payload), src, fail)
        died(outcome) ==
            [s EXCEPT !.status = IF outcome = "panic" THEN "panicked" ELSE "hung"]
    IN  CASE p.tag = "Ping" -> reply(PingRespP)
          [] p.tag = "PingResp" ->
                [s EXCEPT !.keep_alives = TransactionTable_remove(@, tx)]
          [] p.tag = "FindValue" ->
                IF p.key \in DOMAIN s.key_store
                THEN reply(FindValueRespP(s.key_store[p.key]))
                ELSE LET r == k_closest(s.table, from_hash(p.key), K, checks)
                     IN  IF r.outcome = "ok" THEN reply(FindValueNodesP(r.nodes))
                         ELSE died(r.outcome)
          [] p.tag = "FindValueResp" ->
                IF s.query.tag = "Some"
                   /\ TransactionTable_contains(s.query.transactions, tx)
                THEN [s EXCEPT !.query = NoQuery]
                ELSE s
          [] p.tag = "FindValueNodes" -> handle_nodes(s, message.header, p.nodes, txs, nfail)
          [] p.tag = "FindNode" ->
                LET r == k_closest(s.table, p.id, K, checks)
                IN  IF r.outcome = "ok" THEN reply(FindNodeRespP(r.nodes))
                    ELSE died(r.outcome)
          [] p.tag = "FindNodeResp" -> handle_nodes(s, message.header, p.nodes, txs, nfail)
          [] p.tag = "Store" ->
                send_message([s EXCEPT !.key_store = key_store_insert(@, p.key, p.val)],
                             Message_response(tx, this_id, StoreRespP), src, fail)
          [] p.tag = "StoreResp" ->
                [s EXCEPT !.keep_alives = TransactionTable_remove(@, tx)]

\* ServerHandle::handle_message, had it left the senders of responses out of
\* the routing table
handle_message_skips_responses(s, message, src, ping_tx, ping_fail, fail, txs, nfail, checks) ==
    LET node == MkNode(message.header.node_id, src)
        ins == RoutingTable_insert(s.table, node)
        request == message.payload.tag \in {"Ping", "FindValue", "FindNode", "Store"}
        s1 == IF request THEN [s EXCEPT !.table = ins.table] ELSE s
        s2 == IF request /\ ins.result.tag = "Ping"
              THEN LET ping == Message_create(ping_tx, s.table.this_node.id, PingP)
                   IN  send_message(
                           [s1 EXCEPT !.keep_alives = TransactionTable_insert(@, ping.header)],
                           ping, ins.result.node.udp_addr, ping_fail)
              ELSE s1
    IN  IF s2.status # "running" THEN s2
        ELSE dispatch(s2, message, src, fail, txs, nfail, checks)

\* ServerHandle::handle_message.  ping_tx: the transaction id drawn for a probe;
\* ping_fail, fail, nfail: which send returns an error; txs: the transaction ids
\* drawn by handle_nodes
handle_message(s, message, src, ping_tx, ping_fail, fail, txs, nfail, checks) ==
    LET node == MkNode(message.header.node_id, src)
        ins == RoutingTable_insert(s.table, node)
        s1 == [s EXCEPT !.table = ins.table]
        s2 == IF ins.result.tag = "Ping"
              THEN LET ping == Message_create(ping_tx, s.table.this_node.id, PingP)
                   IN  send_message(
                           [s1 EXCEPT !.keep_alives = TransactionTable_insert(@, ping.header)],
                           ping, ins.result.node.udp_addr, ping_fail)
              ELSE s1
    IN  IF s2.status # "running" THEN s2
        ELSE dispatch(s2, message, src, fail, txs, nfail, checks)

\* for &key in &buf { query.remove(key); }
RECURSIVE query_remove_all(_, _)
query_remove_all(q, buf) ==
    IF buf = <<>> THEN q ELSE query_remove_all(Query_remove(q, Head(buf)), Tail(buf))

\* for &key in &buf { self.table.remove(key); }
RECURSIVE table_remove_all(_, _)
table_remove_all(t, buf) ==
    IF buf = <<>> THEN t ELSE table_remove_all(RoutingTable_remove(t, Head(buf)), Tail(buf))

\* the orders in which HashMap::retain may visit a set of entries
Orders(S) == {o \in [1 .. Cardinality(S) -> S] : \A a, b \in DOMAIN o : a # b => o[a] # o[b]}

\* the keys TransactionTable::remove_stale pushes to buf when retain visits
\* the stale entries in this order
stale_keys(tt, order) == [j \in DOMAIN order |-> tt[order[j]].key]

\* ServerHandle::remove_stale.  qorder, korder: the order in which the stale
\* entries of the lookup's table and of keep_alives are visited; tx, fail: the
\* transaction id drawn and the fate of the send in continue_query
remove_stale(s, qorder, korder, tx, fail) ==
    LET qbuf == IF s.query.tag = "Some"
                THEN stale_keys(s.query.transactions, qorder)
                ELSE <<>>
        s1 == IF s.query.tag = "Some"
              THEN LET q1 == [s.query EXCEPT
                                 !.transactions = TransactionTable_remove_stale(@)]
                       q2 == query_remove_all(q1, qbuf)
                       next == Query_get_closest(q2)
                   IN  IF Query_all_done(q2) THEN [s EXCEPT !.query = NoQuery]
                       ELSE IF ~q2.final_k /\ next # 0
                            THEN continue_query([s EXCEPT !.query = q2],
                                                q2.closest[next].node, tx, fail)
                            ELSE [s EXCEPT !.query = q2]
              ELSE s
        kbuf == stale_keys(s.keep_alives, korder)
    IN  IF s1.status # "running" THEN s1
        ELSE [s1 EXCEPT !.keep_alives = TransactionTable_remove_stale(@),
                        !.table = table_remove_all(@, qbuf \o kbuf)]

\* ------------------------------------------------------------------- state
VARIABLES
    table,            \* ServerHandle.table
    key_store,        \* ServerHandle.key_store
    query,            \* ServerHandle.query
    keep_alives,      \* ServerHandle.keep_alives
    status,           \* "running", or how the server thread ended
    pc,               \* the statement of the loop of run_server to execute next
    recv,             \* what recv_from and Message::try_from yielded in this tick
    out,              \* the datagrams the latest handler handed to the socket
    overflow_checks,  \* whether the build panics on arithmetic overflow
    n_msgs,           \* datagrams decoded so far, by this node or its peer
    to_server,        \* the channel operator -> loop
    from_server,      \* the channel loop -> operator
    op_pc,            \* main: "read" a line, or "wait" in sender.receive()
    cmd_log,          \* every command placed on the operator channel, in order
    reply_log,        \* every FromServerMsg the loop emitted, in order
    peer_store,       \* the key store of the peer closest to the hash of a key
    probes,           \* for each tx of a Ping probe sent, the peer it was sent to
    bucket,           \* a stand-alone KBucket
    bucket_ops,       \* the calls made on it, with their results
    rt,               \* a stand-alone RoutingTable
    rt_n,             \* the insert and remove calls made on it so far
    rt_last,          \* the latest call made on it, with its result
    wire,             \* a message on its way through Message::write and try_from
    swept             \* buf of remove_stale: the keys the latest sweep reported

server_vars == <<table, key_store, query, keep_alives, status, pc, recv, out,
                 overflow_checks, n_msgs>>
operator_vars == <<to_server, from_server, op_pc, cmd_log, reply_log>>
network_vars == <<peer_store, probes>>
bucket_vars == <<bucket, bucket_ops>>
table_vars == <<rt, rt_n, rt_last>>
codec_vars == <<wire>>
sweep_vars == <<swept>>
vars == <<server_vars, operator_vars, network_vars, bucket_vars, table_vars,
          codec_vars, sweep_vars>>

NoRecv == [kind |-> "none"]

\* the loop at statement at of its first tick, with routing table t, when the
\* operator has typed the commands cmds (main.rs:21-40), none has been taken
\* yet and no datagram has arrived
LoopStart(t, cmds, at) ==
    /\ table = t
    /\ key_store = EmptyMap
    /\ query = NoQuery
    /\ keep_alives = EmptyMap
    /\ status = "running"
    /\ pc = at
    /\ recv = NoRecv
    /\ out = <<>>
    /\ overflow_checks \in BOOLEAN
    /\ n_msgs = 0
    /\ to_server = cmds
    /\ from_server = <<>>
    /\ op_pc = (IF cmds = <<>> THEN "read" ELSE "wait")
    /\ cmd_log = cmds
    /\ reply_log = <<>>
    /\ peer_store = EmptyMap
    /\ probes = EmptyMap
    /\ bucket = KBucket_new(K)
    /\ bucket_ops = <<>>
    /\ swept = <<>>

\* the loop about to call recv_from, with nothing typed yet
LoopInit(t) == LoopStart(t, <<>>, "recv")

\* run_server up to the loop, make_server_comms, and KBucket::new
InitLoop == \E id \in LocalIds : LoopInit(RoutingTable_new(MkNode(id, LocalAddr), K))

\* RoutingTable::new for the stand-alone table, with one of ids as the local id
TableInit(ids) ==
    /\ \E id \in ids : rt = RoutingTable_new(MkNode(id, LocalAddr), K)
    /\ rt_n = 0
    /\ rt_last = [op |-> "none"]

\* no message is in the codec
NoWire == [stage |-> "idle"]

Init == InitLoop /\ TableInit(LocalIds) /\ wire = NoWire

\* the fields of ServerHandle as the record the handlers work on
Handle == [table |-> table, key_store |-> key_store, query |-> query,
           keep_alives |-> keep_alives, out |-> <<>>, status |-> "running"]

\* dt seconds pass while recv_from blocks
HandleAfter(dt) ==
    [Handle EXCEPT !.keep_alives = Aged(@, dt),
                   !.query = IF @.tag = "Some"
                             THEN [@ EXCEPT !.transactions = Aged(@, dt)] ELSE @]

\* the handler returned: its Err leaves the loop, k_closest not returning ends it
Commit(s, next_pc) ==
    /\ table' = s.table
    /\ key_store' = s.key_store
    /\ query' = s.query
    /\ keep_alives' = s.keep_alives
    /\ out' = s.out
    /\ status' = s.status
    /\ pc' = IF s.status = "running" THEN next_pc ELSE pc

\* server.rs:399: recv_from returns the error of its 400 ms timeout
RecvTimeout ==
    /\ status = "running" /\ pc = "recv"
    /\ \E dt \in Elapses : Commit(HandleAfter(dt), "sweep")
    /\ recv' = NoRecv
    /\ UNCHANGED <<overflow_checks, n_msgs, operator_vars, network_vars, bucket_vars, table_vars, codec_vars, sweep_vars>>

\* server.rs:399: recv_from returns another I/O error; if let Ok(..) skips it
\* like the timeout
RecvFails ==
    /\ status = "running" /\ pc = "recv"
    /\ \E dt \in Elapses : Commit(HandleAfter(dt), "sweep")
    /\ recv' = [kind |-> "io_error"]
    /\ UNCHANGED <<overflow_checks, n_msgs, operator_vars, network_vars, bucket_vars, table_vars, codec_vars, sweep_vars>>

\* a datagram from a peer that holds a header and the tag of FindNode, and
\* nothing more
ShortFindNode(n) == Take(Message_write(Message_response(1, n.id, FindNodeP(0))), 25)

\* server.rs:400: a datagram arrived and Message::try_from panicked on it
RecvPanics ==
    /\ status = "running" /\ pc = "recv"
    /\ \E n \in Peers, h \in HeaderSizes :
         /\ Message_try_from(ShortFindNode(n), h) = Panicked
         /\ recv' = [kind |-> "panic", src |-> n.udp_addr]
    /\ status' = "panicked"
    /\ UNCHANGED <<table, key_store, query, keep_alives, pc, out, overflow_checks, n_msgs,
                   operator_vars, network_vars, bucket_vars, table_vars, codec_vars, sweep_vars>>

\* server.rs:400-402: a datagram arrived and Message::try_from failed
RecvUndecodable ==
    /\ status = "running" /\ pc = "recv"
    /\ \E dt \in Elapses : Commit(HandleAfter(dt), "sweep")
    /\ \E n \in Peers : recv' = [kind |-> "error", src |-> n.udp_addr]
    /\ UNCHANGED <<overflow_checks, n_msgs, operator_vars, network_vars, bucket_vars, table_vars, codec_vars, sweep_vars>>

\* server.rs:399-403: a datagram arrived, decoded to message, and was handled
RecvMessage ==
    /\ status = "running" /\ pc = "recv"
    /\ n_msgs + Len(cmd_log) < MaxEvents
    /\ \E message \in Messages, dt \in Elapses :
         LET s == HandleAfter(dt)
             src == SrcOf(message.header.node_id)
             probe == RoutingTable_insert(s.table, MkNode(message.header.node_id, src))
                          .result.tag = "Ping"
             replies == message.payload.tag \in {"Ping", "FindValue", "FindNode", "Store"}
             lookup == s.query.tag = "Some"
         IN  \E ping_tx \in (IF probe THEN TxIds ELSE {1}),
                ping_fail \in (IF probe THEN BOOLEAN ELSE {FALSE}),
                fail \in (IF replies THEN BOOLEAN ELSE {FALSE}),
                txs \in (IF lookup THEN [1 .. K -> TxIds] ELSE {<<>>}),
                nfail \in (IF lookup THEN 0 .. K ELSE {0}) :
                /\ Commit(handle_message(s, message, src, ping_tx, ping_fail, fail,
                                         txs, nfail, overflow_checks), "sweep")
                /\ recv' = [kind |-> "message", message |-> message, src |-> src]
                /\ probes' = IF probe /\ ~ping_fail
                             THEN LET old == RoutingTable_insert(
                                                 s.table,
                                                 MkNode(message.header.node_id, src)).result.node
                                  IN  [t \in DOMAIN probes \cup {ping_tx} |->
                                          IF t = ping_tx THEN old ELSE probes[t]]
                             ELSE probes
    /\ n_msgs' = n_msgs + 1
    /\ UNCHANGED <<overflow_checks, operator_vars, peer_store, bucket_vars, table_vars, codec_vars, sweep_vars>>

\* server.rs:406: handle.remove_stale()?
Sweep ==
    /\ status = "running" /\ pc = "sweep"
    /\ LET lookup == query.tag = "Some"
       IN  \E qorder \in (IF lookup THEN Orders(StaleTxs(query.transactions)) ELSE {<<>>}),
              korder \in Orders(StaleTxs(keep_alives)),
              tx \in (IF lookup THEN TxIds ELSE {1}),
              fail \in (IF lookup THEN BOOLEAN ELSE {FALSE}) :
              /\ Commit(remove_stale(Handle, qorder, korder, tx, fail), "client")
              /\ swept' = (IF lookup THEN stale_keys(query.transactions, qorder) ELSE <<>>)
                           \o (IF status' = "running" THEN stale_keys(keep_alives, korder)
                               ELSE <<>>)
    /\ recv' = NoRecv
    /\ UNCHANGED <<overflow_checks, n_msgs, operator_vars, network_vars, bucket_vars, table_vars, codec_vars>>

\* ServerHandle::handle_client, had the Store arm sent no reply
handle_client_silent_store(s, from, to) ==
    IF from = <<>> THEN [s |-> s, from |-> from, to |-> to]
    ELSE LET msg == Head(from)
         IN  IF msg.tag = "Get"
             THEN [s |-> s, from |-> Tail(from),
                   to |-> Append(to, FromGetResp(key_store_get(s.key_store, msg.key)))]
             ELSE [s |-> s, from |-> Tail(from), to |-> to]

\* ServerHandle::handle_client, had the Get arm answered None without a look-up
handle_client_get_none(s, from, to) ==
    IF from = <<>> THEN [s |-> s, from |-> from, to |-> to]
    ELSE LET msg == Head(from)
         IN  IF msg.tag = "Get"
             THEN [s |-> s, from |-> Tail(from), to |-> Append(to, FromGetResp(None))]
             ELSE [s |-> s, from |-> Tail(from), to |-> Append(to, FromStoreResp)]

\* ServerHandle::handle_client, had the Store arm written to the key store
handle_client_stores_locally(s, from, to) ==
    IF from = <<>> THEN [s |-> s, from |-> from, to |-> to]
    ELSE LET msg == Head(from)
         IN  IF msg.tag = "Get"
             THEN [s |-> s, from |-> Tail(from),
                   to |-> Append(to, FromGetResp(key_store_get(s.key_store, msg.key)))]
             ELSE [s |-> [s EXCEPT !.key_store = key_store_insert(@, msg.key, msg.val)],
                   from |-> Tail(from), to |-> Append(to, FromStoreResp)]

\* ServerHandle::handle_client, had the Store arm created a Query for the pair
handle_client_starts_lookup(s, from, to) ==
    IF from = <<>> THEN [s |-> s, from |-> from, to |-> to]
    ELSE LET msg == Head(from)
         IN  IF msg.tag = "Get"
             THEN [s |-> s, from |-> Tail(from),
                   to |-> Append(to, FromGetResp(key_store_get(s.key_store, msg.key)))]
             ELSE [s |-> [s EXCEPT !.query = Query_new(IntentStore(msg.key, msg.val))],
                   from |-> Tail(from), to |-> Append(to, FromStoreResp)]

\* ServerHandle::handle_client: the handle and the channels after the call
handle_client(s, from, to) ==
    IF from = <<>> THEN [s |-> s, from |-> from, to |-> to]
    ELSE LET msg == Head(from)
         IN  IF msg.tag = "Get"
             THEN [s |-> s, from |-> Tail(from),
                   to |-> Append(to, FromGetResp(key_store_get(s.key_store, msg.key)))]
             ELSE [s |-> s, from |-> Tail(from), to |-> Append(to, FromStoreResp)]

\* server.rs:407: handle.handle_client()?
HandleClient ==
    /\ status = "running" /\ pc = "client"
    /\ LET r == handle_client(Handle, to_server, from_server)
       IN  /\ Commit(r.s, "recv")
           /\ to_server' = r.from
           /\ from_server' = r.to
           /\ reply_log' = reply_log \o SubSeq(r.to, Len(from_server) + 1, Len(r.to))
    /\ swept' = <<>>
    /\ UNCHANGED <<recv, overflow_checks, n_msgs, op_pc, cmd_log, network_vars, bucket_vars, table_vars, codec_vars>>

\* the server thread has ended and dropped its ends of the channels
ServerGone == status \in {"io_error", "panicked"}

\* main.rs:21-40: a "store k v" or "get k" line is read and the command sent;
\* send fails once the server thread has dropped the receiver
OpSend ==
    /\ op_pc = "read"
    /\ n_msgs + Len(cmd_log) < MaxEvents
    /\ ~ServerGone
    /\ \E cmd \in Commands :
         /\ to_server' = Append(to_server, cmd)
         /\ cmd_log' = Append(cmd_log, cmd)
    /\ op_pc' = "wait"
    /\ UNCHANGED <<server_vars, from_server, reply_log, network_vars, bucket_vars, table_vars, codec_vars, sweep_vars>>

\* main.rs:44-48: sender.receive() returns a reply, or an error once the
\* server thread has dropped the sender and nothing is buffered
OpReceive ==
    /\ op_pc = "wait"
    /\ \/ /\ from_server # <<>>
          /\ from_server' = Tail(from_server)
       \/ /\ from_server = <<>>
          /\ ServerGone
          /\ from_server' = from_server
    /\ op_pc' = "read"
    /\ UNCHANGED <<server_vars, to_server, cmd_log, reply_log, network_vars, bucket_vars, table_vars, codec_vars, sweep_vars>>

\* Another node, the peer closest to the hash of key, decodes a Store(key, val)
\* datagram: the Store arm of handle_message on its own key store
PeerStore ==
    /\ n_msgs + Len(cmd_log) < MaxEvents
    /\ \E k \in StoredKeys, v \in Values : peer_store' = key_store_insert(peer_store, k, v)
    /\ n_msgs' = n_msgs + 1
    /\ UNCHANGED <<table, key_store, query, keep_alives, status, pc, recv, out,
                   overflow_checks, probes, operator_vars, bucket_vars, table_vars, codec_vars, sweep_vars>>

ServerStep ==
    \/ RecvTimeout \/ RecvFails \/ RecvUndecodable \/ RecvPanics \/ RecvMessage
    \/ Sweep \/ HandleClient
OperatorStep == OpSend \/ OpReceive

Next == ServerStep \/ OperatorStep \/ PeerStore

Spec == Init /\ [][Next]_vars

\* the same system, with the loop and the operator thread scheduled fairly
FairSpec == Spec /\ WF_vars(ServerStep) /\ WF_vars(OperatorStep)

\* --------------------------------------------- the loop with a full bucket
\* the routing table once this node has heard from the peers 4 and 5, in
\* this order: the bucket of both is full
FullTable ==
    LET t0 == RoutingTable_new(MkNode(0, LocalAddr), K)
        t1 == RoutingTable_insert(t0, MkNode(4, "p")).table
    IN  RoutingTable_insert(t1, MkNode(5, "q")).table

InitFull == LoopInit(FullTable) /\ TableInit(LocalIds) /\ wire = NoWire

\* the loop from there on
SpecFull == InitFull /\ [][Next]_vars

\* ------------------------------------------------- the stand-alone k-bucket
\* the ids given to the stand-alone bucket, all at one address
BucketNodes == {MkNode(i, "p") : i \in 0 .. K}

\* bucket.insert(item)
BucketInsert ==
    /\ Len(bucket_ops) < MaxBucketOps
    /\ \E item \in BucketNodes :
         LET r == KBucket_insert(bucket, item)
         IN  /\ bucket' = r.bucket
             /\ bucket_ops' = Append(bucket_ops,
                                     [op |-> "insert", id |-> item.id,
                                      addr |-> item.udp_addr, result |-> r.result])
    /\ UNCHANGED <<server_vars, operator_vars, network_vars, table_vars, codec_vars, sweep_vars>>

\* bucket.remove(id)
BucketRemove ==
    /\ Len(bucket_ops) < MaxBucketOps
    /\ \E item \in BucketNodes :
         /\ bucket' = KBucket_remove(bucket, item.id)
         /\ bucket_ops' = Append(bucket_ops,
                                 [op |-> "remove", id |-> item.id, result |-> Inserted])
    /\ UNCHANGED <<server_vars, operator_vars, network_vars, table_vars, codec_vars, sweep_vars>>

NextBucket == BucketInsert \/ BucketRemove

SpecBucket == Init /\ [][NextBucket]_vars

\* bucket.insert(item) for a peer of the active list heard from at another
\* address
BucketReinsert ==
    /\ Len(bucket_ops) < MaxBucketOps
    /\ \E j \in 1 .. Len(bucket.data) :
         LET item == MkNode(bucket.data[j].id, "q")
             r == KBucket_insert(bucket, item)
         IN  /\ bucket' = r.bucket
             /\ bucket_ops' = Append(bucket_ops,
                                     [op |-> "insert", id |-> item.id,
                                      addr |-> item.udp_addr, result |-> r.result])
    /\ UNCHANGED <<server_vars, operator_vars, network_vars, table_vars, codec_vars, sweep_vars>>

NextBucketMoved == NextBucket \/ BucketReinsert

\* the stand-alone bucket whose peers may change their address
SpecBucketMoved == Init /\ [][NextBucketMoved]_vars

\* ------------------------------------------------- the loop with a lookup
\* Starting a lookup.  No code of the program creates a Query: this is the
\* start the specification describes (section 4.6), built from the program's
\* own Query::new, RoutingTable::k_closest, Query::add_node and
\* ServerHandle::continue_query.
start_lookup(s, intention, tx, fail, checks) ==
    LET q0 == Query_new(intention)
        r == k_closest(s.table, q0.target, K, checks)
    IN  IF r.outcome # "ok"
        THEN [s EXCEPT !.status = IF r.outcome = "panic" THEN "panicked" ELSE "hung"]
        ELSE LET q1 == add_nodes(q0, r.nodes, FALSE).query
                 next == Query_get_closest(q1)
             IN  IF next = 0 THEN [s EXCEPT !.query = q1]
                 ELSE continue_query([s EXCEPT !.query = q1], q1.closest[next].node, tx, fail)

\* the operator poll of a loop that turns a command into a lookup when none
\* is active
StartLookup ==
    /\ status = "running" /\ pc = "client"
    /\ to_server # <<>> /\ query = NoQuery
    /\ LET cmd == Head(to_server)
           intention == IF cmd.tag = "Store" THEN IntentStore(cmd.key, cmd.val)
                        ELSE IntentGet(cmd.key)
       IN  \E tx \in TxIds, fail \in BOOLEAN :
              Commit(start_lookup(Handle, intention, tx, fail, overflow_checks), "recv")
    /\ to_server' = Tail(to_server)
    /\ swept' = <<>>
    /\ UNCHANGED <<recv, overflow_checks, n_msgs, from_server, op_pc, cmd_log, reply_log,
                   network_vars, bucket_vars, table_vars, codec_vars>>

\* the operator poll otherwise: handle_client as the program has it
PollClient == (to_server = <<>> \/ query # NoQuery) /\ HandleClient

LookupStep ==
    \/ RecvTimeout \/ RecvFails \/ RecvUndecodable \/ RecvPanics \/ RecvMessage
    \/ Sweep \/ StartLookup \/ PollClient

NextLookup == LookupStep \/ OperatorStep

SpecLookup == Init /\ [][NextLookup]_vars

\* the loop, while it runs, goes on to its next statement
LoopTicks == status = "running" /\ pc' \in {"recv", "sweep", "client"}

\* the same, with the loop and the operator thread scheduled fairly: every
\* statement of the loop returns (recv_from after its timeout at the latest)
FairSpecLookup == SpecLookup /\ WF_pc(LoopTicks) /\ WF_vars(OperatorStep)

\* the loop with a lookup: the bucket is full, a Get is typed, and the first
\* tick has come to its operator poll
InitAsked ==
    /\ LoopStart(FullTable, <<ToGet("a")>>, "client")
    /\ TableInit(LocalIds)
    /\ wire = NoWire

\* the operator waits in sender.receive() from then on: no reply ends a lookup
NextAsked == LookupStep \/ OpReceive

SpecAsked == InitAsked /\ [][NextAsked]_vars

\* ------------------------------------------- the stand-alone routing table
\* the most significant bit of an id
TopBit == Pow2(KEY_SIZE - 1)

\* the local ids the stand-alone table is built with
TableLocalIds == {0, TopBit + 1}

\* the nodes given to it: ids at distances with and without the top bit set
TableNodes == {MkNode(i, "p") : i \in {0, 1, TopBit, TopBit + 1, TopBit + 2}}

\* the targets asked for
TableTargets == {0, 1, TopBit + 1, Pow2(KEY_SIZE) - 1}

\* table.insert(node)
TableInsert ==
    /\ rt_n < MaxTableOps
    /\ \E node \in TableNodes :
         LET r == RoutingTable_insert(rt, node)
         IN  /\ rt' = r.table
             /\ rt_last' = [op |-> "insert", id |-> node.id, result |-> r.result]
    /\ rt_n' = rt_n + 1
    /\ UNCHANGED <<server_vars, operator_vars, network_vars, bucket_vars, codec_vars, sweep_vars>>

\* table.remove(id)
TableRemove ==
    /\ rt_n < MaxTableOps
    /\ \E node \in TableNodes :
         /\ rt' = RoutingTable_remove(rt, node.id)
         /\ rt_last' = [op |-> "remove", id |-> node.id]
    /\ rt_n' = rt_n + 1
    /\ UNCHANGED <<server_vars, operator_vars, network_vars, bucket_vars, codec_vars, sweep_vars>>

\* table.k_closest(target, k)
TableClosest ==
    /\ \E target \in TableTargets, k \in 0 .. (K + 1) :
         rt_last' = [op |-> "k_closest", target |-> target, k |-> k,
                     result |-> k_closest(rt, target, k, overflow_checks)]
    /\ UNCHANGED <<server_vars, operator_vars, network_vars, bucket_vars, rt, rt_n, codec_vars, sweep_vars>>

NextTable == TableInsert \/ TableRemove \/ TableClosest

InitTable == InitLoop /\ TableInit(TableLocalIds) /\ wire = NoWire

SpecTable == InitTable /\ [][NextTable]_vars
\* ------------------------------------------------- the stand-alone codec
\* identifiers and transaction ids whose bytes differ from one another
CodecIds == {0, 66051}
CodecTxIds == {258}

\* addresses as SocketAddr::new builds them
CodecNodes ==
    {MkNode(66051, SocketAddr_new(IpV4(<<127, 0, 0, 1>>), 8080)),
     MkNode(1, SocketAddr_new(IpV6([i \in 1 .. 16 |-> IF i = 16 THEN 1 ELSE 0]), 443))}

\* Vec<Node> of up to MaxNodes nodes
CodecNodeLists ==
    UNION {[1 .. n -> CodecNodes] : n \in 0 .. MaxNodes}

\* String, as its UTF-8 bytes: empty, ASCII, a two-byte character, and the
\* longest the one-byte length allows
CodecStrings ==
    {<<>>, <<65>>, <<65, 65, 65, 65>>, <<195, 169>>, [i \in 1 .. 255 |-> 66]}

\* the nine variants of RPCPayload
CodecPayloads ==
    {PingP, PingRespP, StoreRespP}
    \cup {FindNodeP(i) : i \in CodecIds}
    \cup {FindNodeRespP(n) : n \in CodecNodeLists}
    \cup {FindValueNodesP(n) : n \in CodecNodeLists}
    \cup {FindValueP(k) : k \in CodecStrings}
    \cup {FindValueRespP(v) : v \in CodecStrings}
    \cup {StoreP(k, v) : k \in CodecStrings, v \in CodecStrings}

CodecMessages ==
    {Message_response(tx, i, p) : tx \in CodecTxIds, i \in CodecIds, p \in CodecPayloads}

\* a message to send, in a build of either header size
InitCodec ==
    /\ InitLoop
    /\ TableInit(LocalIds)
    /\ \E m \in CodecMessages, h \in HeaderSizes :
         wire = [stage |-> "new", header_size |-> h, msg |-> m]

\* let amt = msg.write(&mut buf); the frame is &buf[..amt]
CodecWrite ==
    /\ wire.stage = "new"
    /\ wire' = [stage |-> "written", header_size |-> wire.header_size,
                msg |-> wire.msg, frame |-> Message_write(wire.msg),
                amt |-> Message_write_count(wire.msg)]
    /\ UNCHANGED <<server_vars, operator_vars, network_vars, bucket_vars, table_vars,
                   sweep_vars>>

\* Message::try_from(&buf[..amt]) on the frame written
CodecRead ==
    /\ wire.stage = "written"
    /\ wire' = [stage |-> "read", header_size |-> wire.header_size,
                msg |-> wire.msg, frame |-> wire.frame,
                decoded |-> Message_try_from(wire.frame, wire.header_size)]
    /\ UNCHANGED <<server_vars, operator_vars, network_vars, bucket_vars, table_vars,
                   sweep_vars>>

\* the decoded message is written again
CodecRewrite ==
    /\ wire.stage = "read"
    /\ wire.decoded.ok
    /\ wire' = [stage |-> "rewritten", header_size |-> wire.header_size,
                msg |-> wire.msg, frame |-> wire.frame, decoded |-> wire.decoded,
                reframe |-> Message_write(wire.decoded.val)]
    /\ UNCHANGED <<server_vars, operator_vars, network_vars, bucket_vars, table_vars,
                   sweep_vars>>

\* the tag bytes a damaged frame may carry instead of its own
TagBytes == 0 .. 10

\* recv_from yields a datagram that is a frame cut short after n bytes, with
\* its tag byte as written or replaced
CodecArrive ==
    /\ wire.stage = "written"
    /\ Len(wire.frame) <= MaxDamaged
    /\ \E n \in 0 .. Len(wire.frame), t \in TagBytes \cup {wire.frame[25]} :
         wire' = [stage |-> "arrived", header_size |-> wire.header_size,
                  msg |-> wire.msg,
                  datagram |-> Take([wire.frame EXCEPT ![25] = t], n)]
    /\ UNCHANGED <<server_vars, operator_vars, network_vars, bucket_vars, table_vars,
                   sweep_vars>>

\* Message::try_from(&handle.buf[..amt]) on the datagram
CodecParse ==
    /\ wire.stage = "arrived"
    /\ wire' = [stage |-> "parsed", header_size |-> wire.header_size,
                msg |-> wire.msg, datagram |-> wire.datagram,
                decoded |-> Message_try_from(wire.datagram, wire.header_size)]
    /\ UNCHANGED <<server_vars, operator_vars, network_vars, bucket_vars, table_vars,
                   sweep_vars>>

NextCodec == CodecWrite \/ CodecRead \/ CodecRewrite \/ CodecArrive \/ CodecParse

SpecCodec == InitCodec /\ [][NextCodec]_vars


\* ------------------------------------------------- the stand-alone lookup
\* the peers given to the lookup: one of every identifier
QueryNodes == {MkNode(i, "p") : i \in Ids}

\* the variables a call on the Query leaves alone
query_frame == <<table, key_store, keep_alives, status, pc, recv, out, overflow_checks,
                 n_msgs, operator_vars, network_vars, bucket_vars, table_vars, codec_vars,
                 sweep_vars>>

\* Query::new(intention)
QueryNew ==
    /\ query = NoQuery
    /\ \E intention \in {IntentStore("a", "x"), IntentGet("b")} :
          query' = Query_new(intention)
    /\ UNCHANGED query_frame

\* query.add_node(node)
QueryAddNode ==
    /\ query # NoQuery
    /\ \E node \in QueryNodes : query' = Query_add_node(query, node).query
    /\ UNCHANGED query_frame

\* query.update_status(target, status)
QueryUpdateStatus ==
    /\ query # NoQuery
    /\ \E id \in Ids, st \in {Empty, Started, Finished} :
          query' = Query_update_status(query, id, st)
    /\ UNCHANGED query_frame

\* query.remove(key)
QueryRemove ==
    /\ query # NoQuery
    /\ \E id \in Ids : query' = Query_remove(query, id)
    /\ UNCHANGED query_frame

NextQuery == QueryNew \/ QueryAddNode \/ QueryUpdateStatus \/ QueryRemove

SpecQuery == Init /\ [][NextQuery]_vars

\* ==================================================================== claims
\* commands the loop has taken off the operator channel
Consumed == Len(cmd_log) - Len(to_server)

\* this step is handle_client taking a command off the operator channel
ConsumesCommand == to_server # <<>> /\ to_server' = Tail(to_server)

\* C1: every command taken off the operator channel is answered at once by
\* exactly one reply of its kind (StoreResp for Store, GetResp for Get): the
\* replies emitted are as many as the commands consumed, the i-th reply is of
\* the kind of the i-th command, and the commands not yet consumed are the
\* tail of those sent.
C1_OneReplyPerCommand ==
    /\ Len(reply_log) = Consumed
    /\ Len(reply_log) <= Len(cmd_log)
    /\ to_server = SubSeq(cmd_log, Consumed + 1, Len(cmd_log))
    /\ \A i \in 1 .. Len(reply_log) :
         reply_log[i].tag = (IF cmd_log[i].tag = "Store" THEN "StoreResp" ELSE "GetResp")

\* two commands were answered, a Store and then a Get
C1_Witness ==
    /\ Len(reply_log) = 2
    /\ cmd_log[1].tag = "Store" /\ reply_log[1] = FromStoreResp
    /\ cmd_log[2].tag = "Get" /\ reply_log[2].tag = "GetResp"

\* C2: when the loop consumes Get(key) it emits GetResp(Some(v)) if the key
\* store maps key to v and GetResp(None) if key is absent, and goes on to the
\* next tick still running.
C2_GetReadsKeyStore ==
    [][(ConsumesCommand /\ Head(to_server).tag = "Get") =>
          LET key == Head(to_server).key
          IN  /\ reply_log' = Append(reply_log,
                     FromGetResp(IF key \in DOMAIN key_store
                                 THEN [tag |-> "Some", val |-> key_store[key]]
                                 ELSE [tag |-> "None"]))
              /\ from_server' = Append(from_server, reply_log'[Len(reply_log')])
              /\ status' = "running" /\ pc' = "recv"]_vars

\* a Get was answered with a value, and one with None
C2_Witness ==
    /\ \E i \in 1 .. Len(reply_log) : reply_log[i] = FromGetResp(Some("y"))
    /\ \E i \in 1 .. Len(reply_log) : reply_log[i] = FromGetResp(None)

\* C3: when the loop consumes the operator's Store(k, v) and emits StoreResp,
\* the pair has been stored: the key store maps k to v, or a Store(k, v)
\* datagram was sent, or a lookup with that intention was started.
C3_OperatorStoreIsStored ==
    [][(ConsumesCommand /\ Head(to_server).tag = "Store") =>
          LET k == Head(to_server).key
              v == Head(to_server).val
          IN  \/ k \in DOMAIN key_store' /\ key_store'[k] = v
              \/ \E j \in 1 .. Len(out') : out'[j].msg.payload = StoreP(k, v)
              \/ query'.tag = "Some"]_vars

\* the node holds at least one peer in its routing table
KnowsPeer == \E i \in 1 .. KEY_SIZE : table.buckets[i].data # <<>>

\* C4: when key k is stored on the peer closest to hash(k) and the operator
\* issues Get(k) at this node, which knows a peer, the answer is
\* GetResp(Some(value)) with the value that peer holds.
C4_GetFindsRemoteValue ==
    [][(ConsumesCommand /\ Head(to_server).tag = "Get"
        /\ Head(to_server).key \in DOMAIN peer_store /\ KnowsPeer) =>
          reply_log' = Append(reply_log,
                              FromGetResp(Some(peer_store[Head(to_server).key])))]_vars

\* C5: the key store changes only in the step that handles an inbound
\* Store(k, v), and then to the store with k mapped to v; receive time-outs,
\* undecodable datagrams, every other message type, the stale sweep and both
\* operator commands leave it as it was.
C5_KeyStoreFrame ==
    [][key_store' # key_store =>
          /\ pc = "recv"
          /\ recv'.kind = "message"
          /\ recv'.message.payload.tag = "Store"
          /\ key_store' = [k \in DOMAIN key_store \cup {recv'.message.payload.key} |->
                              IF k = recv'.message.payload.key
                              THEN recv'.message.payload.val ELSE key_store[k]]]_vars

\* the key store holds a peer's "y" for "a" although the operator's
\* Store("a", "x") was acknowledged
C5_Witness ==
    /\ "a" \in DOMAIN key_store /\ key_store["a"] = "y"
    /\ Len(reply_log) >= 1 /\ reply_log[1] = FromStoreResp
    /\ cmd_log[1] = ToStore("a", "x")

\* the type of an inbound request and the types that answer it
IsRequest(p) == p.tag \in {"Ping", "FindNode", "FindValue", "Store"}
ResponseTags == {"PingResp", "FindNodeResp", "FindValueResp", "FindValueNodes", "StoreResp"}
AnswersTo(p) ==
    CASE p.tag = "Ping" -> {"PingResp"}
      [] p.tag = "FindNode" -> {"FindNodeResp"}
      [] p.tag = "FindValue" -> {"FindValueResp", "FindValueNodes"}
      [] p.tag = "Store" -> {"StoreResp"}

\* the datagrams of the latest handler that are responses
Responses == {j \in 1 .. Len(out) : out[j].msg.payload.tag \in ResponseTags}

\* the latest receive decoded a message and no send failed while handling it
Handled == recv.kind = "message" /\ status # "io_error"

\* C6: once a Store(k, v) is handled the key store maps k to v; a FindValue(k)
\* for a stored k is answered with FindValueResp of the stored value; a
\* FindValue(k) for a k not stored is answered with
\* FindValueNodes(k_closest(hash(k), K)) and not with FindValueResp.
C6_StoreThenFindValue ==
    Handled =>
        LET p == recv.message.payload
            sent == {out[j].msg.payload : j \in Responses}
        IN  /\ p.tag = "Store" => p.key \in DOMAIN key_store /\ key_store[p.key] = p.val
            /\ (p.tag = "FindValue" /\ p.key \in DOMAIN key_store) =>
                  sent = {FindValueRespP(key_store[p.key])}
            /\ (p.tag = "FindValue" /\ p.key \notin DOMAIN key_store) =>
                  \E nodes \in {k_closest(table, from_hash(p.key), K, overflow_checks).nodes} :
                      sent = {FindValueNodesP(nodes)}

\* C7: a decoded request is answered with exactly one response datagram, sent
\* to the datagram's source, carrying the request's transaction id and this
\* node's id, of the type that answers the request.
C7_OneResponsePerRequest ==
    (Handled /\ IsRequest(recv.message.payload)) =>
        /\ Cardinality(Responses) = 1
        /\ \A j \in Responses :
             /\ out[j].to = recv.src
             /\ out[j].msg.header.transaction_id = recv.message.header.transaction_id
             /\ out[j].msg.header.node_id = table.this_node.id
             /\ out[j].msg.payload.tag \in AnswersTo(recv.message.payload)

\* C8: with the loop and the operator scheduled fairly, and unless a send
\* fails, the n-th command placed on the operator channel is eventually
\* answered by an n-th reply.
C8_CommandsAnswered ==
    \A n \in 1 .. MaxEvents :
        (Len(cmd_log) >= n) ~> (Len(reply_log) >= n \/ status = "io_error")

\* the stand-alone bucket has only seen inserts, of pairwise distinct ids
OnlyDistinctInserts ==
    /\ \A i \in 1 .. Len(bucket_ops) : bucket_ops[i].op = "insert"
    /\ \A i, j \in 1 .. Len(bucket_ops) : i # j => bucket_ops[i].id # bucket_ops[j].id

\* C9: from an empty bucket of capacity K, each of the first K inserts of
\* distinct ids returns Inserted and leaves as many active peers as inserts
\* made, in insertion order; the (K+1)-th returns Ping of the first-inserted
\* peer, leaves the active list as it was and puts the newcomer on the
\* waiting stack.
C9_FillThenProbeOldest ==
    OnlyDistinctInserts =>
        LET n == Len(bucket_ops)
        IN  /\ n <= K =>
                 /\ \A i \in 1 .. n : bucket_ops[i].result = [tag |-> "Inserted"]
                 /\ Len(bucket.data) = n
                 /\ \A i \in 1 .. n : bucket.data[i].id = bucket_ops[i].id
                 /\ bucket.waiting = <<>>
            /\ n = K + 1 =>
                 /\ bucket_ops[n].result.tag = "Ping"
                 /\ bucket_ops[n].result.node.id = bucket_ops[1].id
                 /\ Len(bucket.data) = K
                 /\ \A i \in 1 .. K : bucket.data[i].id = bucket_ops[i].id
                 /\ Len(bucket.waiting) = 1
                 /\ bucket.waiting[1].id = bucket_ops[n].id

\* K + 1 distinct ids were inserted into the empty bucket
C9_Witness == OnlyDistinctInserts /\ Len(bucket_ops) = K + 1

\* this step is bucket.remove(id)
RemovesFromBucket(id) ==
    /\ Len(bucket_ops') = Len(bucket_ops) + 1
    /\ bucket_ops'[Len(bucket_ops')].op = "remove"
    /\ bucket_ops'[Len(bucket_ops')].id = id

C11_ActiveAtMostK == Len(bucket.data) <= bucket.max_size

\* the last call removed a peer that had been inserted, and the bucket is
\* full again: a waiting peer was promoted into the freed place
C11_Witness ==
    /\ bucket_ops # <<>>
    /\ LET last == bucket_ops[Len(bucket_ops)]
       IN  /\ last.op = "remove"
           /\ \E i \in 1 .. (Len(bucket_ops) - 1) :
                bucket_ops[i].op = "insert" /\ bucket_ops[i].id = last.id
           /\ \A j \in 1 .. Len(bucket.data) : bucket.data[j].id # last.id
    /\ Len(bucket.data) = bucket.max_size

\* C12: after any sequence of insert and remove calls on a bucket, repeated
\* inserts of one id into the full bucket and promotions included, no id
\* appears more than once in the active list.
C12_NoDuplicateActive ==
    \A i, j \in 1 .. Len(bucket.data) :
        i # j => bucket.data[i].id # bucket.data[j].id

\* the position in bucket_ops of the most recent insert call for id (0: none)
LastInsert(id) ==
    LET at == {i \in 1 .. Len(bucket_ops) :
                  bucket_ops[i].op = "insert" /\ bucket_ops[i].id = id}
    IN  IF at = {} THEN 0 ELSE CHOOSE i \in at : \A h \in at : h <= i

\* C13: the active list is ordered by recency of sighting: a peer placed
\* before another was last inserted before the other was last inserted, also
\* after removals that promote waiting peers.
C13_ActiveOrderedByRecency ==
    \A i, j \in 1 .. Len(bucket.data) :
        i < j => LastInsert(bucket.data[i].id) < LastInsert(bucket.data[j].id)

\* the peers bucket i of the source holds, active and waiting
Held(t, i) ==
    {t.buckets[i + 1].data[j] : j \in 1 .. Len(t.buckets[i + 1].data)}
        \cup {t.buckets[i + 1].waiting[j] : j \in 1 .. Len(t.buckets[i + 1].waiting)}

\* every peer held is in the bucket its distance to the local id asks for
WellPlaced(t) ==
    \A i \in 0 .. (KEY_SIZE - 1) : \A peer \in Held(t, i) :
        /\ peer.id # t.this_node.id
        /\ leading_zeros(distance(t.this_node.id, peer.id)) = i

\* C14: after every RoutingTable insert or remove call, each peer held in
\* bucket i, active or waiting, has an id other than the local id and a
\* distance to the local id with i leading zeros; insert of the local node
\* returns Inserted and remove of the local id returns, and neither changes
\* a bucket.
C14_PeersInTheirBucket ==
    [][rt_n' = rt_n + 1 =>
          /\ WellPlaced(rt')
          /\ rt_last'.id = rt.this_node.id =>
                /\ rt' = rt
                /\ rt_last'.op = "insert" => rt_last'.result = [tag |-> "Inserted"]]_vars

\* the local node was inserted into a table that holds a waiting peer and
\* peers in two buckets
C14_Witness ==
    /\ rt_last.op = "insert" /\ rt_last.id = rt.this_node.id
    /\ \E i \in 1 .. KEY_SIZE : rt.buckets[i].waiting # <<>>
    /\ \E i, j \in 1 .. KEY_SIZE : i # j /\ rt.buckets[i].data # <<>> /\ rt.buckets[j].data # <<>>

\* the identities a table knows: its active peers and the local node
Known(t) ==
    {t.this_node.id} \cup
        UNION {{t.buckets[i].data[j].id : j \in 1 .. Len(t.buckets[i].data)} :
                  i \in 1 .. KEY_SIZE}

\* the latest call on the stand-alone table was k_closest and it returned nodes
Returned == IF rt_last.op = "k_closest" THEN rt_last.result.nodes ELSE <<>>

\* nodes lists, once each and by ascending distance to target, the closest
\* Len(nodes) of the identities known
ClosestOfKnown(nodes, target) ==
    /\ \A j \in 1 .. Len(nodes) : nodes[j].id \in Known(rt)
    /\ \A h, j \in 1 .. Len(nodes) :
         h < j => distance(nodes[h].id, target) < distance(nodes[j].id, target)
    /\ \A id \in Known(rt) :
         (\A j \in 1 .. Len(nodes) : nodes[j].id # id) =>
             \A j \in 1 .. Len(nodes) : distance(nodes[j].id, target) < distance(id, target)

\* C15: for every table content, target and k, k_closest(target, k) returns
\* the first min(k, n + 1) of the known identities (n active peers and the
\* local node) sorted by ascending distance to target: that many entries, each
\* identity once, none closer left out, in ascending order.
C15_KClosestIsSortedPrefix ==
    rt_last.op = "k_closest" =>
        /\ rt_last.result.outcome = "ok"
        /\ Len(Returned) = Min(rt_last.k, Cardinality(Known(rt)))
        /\ ClosestOfKnown(Returned, rt_last.target)

\* C16: with fewer than K peers known, k_closest(target, K) returns for any
\* target the local node and every known peer, each once, by ascending
\* distance to target; k_closest(target, 0) returns the empty list.
C16_SmallTableReturnsEverything ==
    (rt_last.op = "k_closest" /\ Cardinality(Known(rt)) - 1 < K) =>
        /\ rt_last.result.outcome = "ok"
        /\ rt_last.k = K =>
              /\ {Returned[j].id : j \in 1 .. Len(Returned)} = Known(rt)
              /\ Len(Returned) = Cardinality(Known(rt))
              /\ \A h, j \in 1 .. Len(Returned) :
                   h < j => distance(Returned[h].id, rt_last.target)
                                < distance(Returned[j].id, rt_last.target)
        /\ rt_last.k = 0 => Returned = <<>>

\* this step is the stale sweep of the loop
SweepStep == pc = "sweep" /\ status = "running" /\ (pc' = "client" \/ status' # "running")

\* the bucket of table t that peers with this id belong to
BucketOf(t, id) == t.buckets[leading_zeros(distance(t.this_node.id, id)) + 1]

\* C17: when the oldest peer of a full bucket was probed with a Ping because a
\* new peer arrived, and no PingResp came within the deadline, the first
\* sweep after the deadline removes the probed peer from the routing table
\* and makes the bucket's most recent waiting peer active in its place.
C17_SweepEvictsSilentPeer ==
    [][\A tx \in DOMAIN probes :
          (/\ SweepStep
           /\ tx \in StaleTxs(keep_alives)
           /\ \E j \in 1 .. Len(BucketOf(table, probes[tx].id).data) :
                BucketOf(table, probes[tx].id).data[j].id = probes[tx].id
           /\ BucketOf(table, probes[tx].id).waiting # <<>>) =>
             LET before == BucketOf(table, probes[tx].id)
                 after == BucketOf(table', probes[tx].id)
             IN  /\ \A j \in 1 .. Len(after.data) : after.data[j].id # probes[tx].id
                 /\ after.data # <<>>
                 /\ after.data[Len(after.data)] = before.waiting[Len(before.waiting)]]_vars

\* every request of the active lookup still outstanding is past its deadline
DeadlinesPassed ==
    /\ query.tag = "Some"
    /\ StaleTxs(query.transactions) = DOMAIN query.transactions

\* C18: under fair ticking of the loop an active lookup eventually terminates
\* (the current lookup becomes absent), even if contacted peers never respond:
\* once the deadline of every outstanding request has passed, the lookup
\* becomes absent.
C18_LookupTerminates ==
    DeadlinesPassed ~> (query.tag = "None" \/ status # "running")

\* this step ends the active lookup
LookupEnds == query.tag = "Some" /\ query'.tag = "None"

\* the peers of the shortlist the lookup ends on: those Finished before the
\* step and the peer whose response the step handled
FinalShortlist ==
    {query.closest[j].node : j \in {h \in 1 .. Len(query.closest) :
        \/ query.closest[h].status = "Finished"
        \/ /\ recv'.kind = "message"
           /\ query.closest[h].node.id = recv'.message.header.node_id}}

\* C19: when an active lookup terminates its result is delivered: for a Store
\* intention a Store(key, value) datagram goes to every peer of the final
\* shortlist; for a Get intention exactly one GetResp goes to the operator,
\* GetResp(Some(value)) when the lookup ends on a FindValueResp whose tx was
\* outstanding and GetResp(None) when it ends with all peers Finished.
C19_LookupResultDelivered ==
    [][LookupEnds =>
          /\ query.intention.tag = "Store" =>
                \A node \in FinalShortlist : \E j \in 1 .. Len(out') :
                    /\ out'[j].to = node.udp_addr
                    /\ out'[j].msg.payload = StoreP(query.intention.key, query.intention.val)
          /\ query.intention.tag = "Get" =>
                reply_log' = Append(reply_log,
                    FromGetResp(IF recv'.kind = "message"
                                   /\ recv'.message.payload.tag = "FindValueResp"
                                THEN [tag |-> "Some", val |-> recv'.message.payload.val]
                                ELSE [tag |-> "None"]))]_vars

\* C20: for every well-formed message m, decoding the bytes produced by
\* encoding m succeeds with a message equal to m (same header, same payload
\* variant, same strings and nodes), and encoding that message again yields
\* the same bytes.
C20_CodecRoundTrip ==
    /\ wire.stage \in {"read", "rewritten"} =>
         wire.decoded.ok /\ wire.decoded.val = wire.msg
    /\ wire.stage = "rewritten" => wire.reframe = wire.frame

ParseErrors == {"InsufficientLength", "InvalidString", "UnknownMessageType"}

\* C21: decoding any byte sequence either yields a message or fails with
\* InsufficientLength, InvalidString or UnknownMessageType, and never faults;
\* a frame cut short in its header or body yields InsufficientLength and a
\* tag outside 1 .. 9 yields UnknownMessageType.
C21_DecodeNeverFaults ==
    wire.stage = "parsed" =>
        /\ wire.decoded.ok \/ wire.decoded.err \in ParseErrors
        /\ Len(wire.datagram) < 24 => wire.decoded = Err("InsufficientLength")
        /\ (Len(wire.datagram) >= 25 /\ wire.datagram[25] \notin 1 .. 9) =>
               wire.decoded = Err("UnknownMessageType")
        /\ (Len(wire.datagram) \in 25 .. 40 /\ wire.datagram[25] = 3) =>
               wire.decoded = Err("InsufficientLength")

\* the k-th byte of num, counted from its least significant byte
RECURSIVE ByteOf(_, _)
ByteOf(num, k) == IF k = 0 THEN num % 256 ELSE ByteOf(num \div 256, k - 1)

\* bytes is num written big-endian
IsBigEndian(bytes, num) ==
    \A i \in 1 .. Len(bytes) : bytes[i] = ByteOf(num, Len(bytes) - i)

\* bytes is one length byte followed by the bytes of string
IsString(bytes, string) ==
    /\ Len(bytes) = 1 + Len(string)
    /\ bytes[1] = Len(string)
    /\ \A i \in 1 .. Len(string) : bytes[1 + i] = string[i]

\* bytes is the nodes one after the other: 16-byte id, kind byte 4 or 6,
\* address bytes, 2-byte big-endian port
RECURSIVE AreNodes(_, _)
AreNodes(bytes, nodes) ==
    IF nodes = <<>> THEN bytes = <<>>
    ELSE LET node == Head(nodes)
             ip == node.udp_addr.ip
             n == IF ip.v = 4 THEN 4 ELSE 16
         IN  /\ Len(bytes) >= 19 + n
             /\ IsBigEndian(SubSeq(bytes, 1, 16), node.id)
             /\ bytes[17] = ip.v
             /\ ip.v \in {4, 6}
             /\ SubSeq(bytes, 18, 17 + n) = ip.octets
             /\ IsBigEndian(SubSeq(bytes, 18 + n, 19 + n), node.udp_addr.port)
             /\ AreNodes(SkipBytes(bytes, 19 + n), Tail(nodes))

\* the tag byte of each payload variant
TagOf(p) ==
    CASE p.tag = "Ping" -> 1
      [] p.tag = "PingResp" -> 2
      [] p.tag = "FindNode" -> 3
      [] p.tag = "FindNodeResp" -> 4
      [] p.tag = "Store" -> 5
      [] p.tag = "StoreResp" -> 6
      [] p.tag = "FindValue" -> 7
      [] p.tag = "FindValueNodes" -> 8
      [] p.tag = "FindValueResp" -> 9

\* body is the body of payload p
IsBody(body, p) ==
    CASE p.tag \in {"Ping", "PingResp", "StoreResp"} -> body = <<>>
      [] p.tag = "FindNode" -> Len(body) = 16 /\ IsBigEndian(body, p.id)
      [] p.tag \in {"FindNodeResp", "FindValueNodes"} ->
            /\ body # <<>>
            /\ body[1] = Len(p.nodes)
            /\ AreNodes(Tail(body), p.nodes)
      [] p.tag = "Store" ->
            /\ Len(body) = 2 + Len(p.key) + Len(p.val)
            /\ IsString(SubSeq(body, 1, 1 + Len(p.key)), p.key)
            /\ IsString(SkipBytes(body, 1 + Len(p.key)), p.val)
      [] p.tag = "FindValue" -> IsString(body, p.key)
      [] p.tag = "FindValueResp" -> IsString(body, p.val)

\* C22: for each payload variant Message::write emits the 16-byte big-endian
\* node id, the 8-byte big-endian transaction id, the variant's tag byte and
\* then the body, and returns exactly the number of bytes written.
C22_WireLayout ==
    wire.stage = "written" =>
        /\ Len(wire.frame) >= 25
        /\ IsBigEndian(SubSeq(wire.frame, 1, 16), wire.msg.header.node_id)
        /\ IsBigEndian(SubSeq(wire.frame, 17, 24), wire.msg.header.transaction_id)
        /\ wire.frame[25] = TagOf(wire.msg.payload)
        /\ IsBody(SkipBytes(wire.frame, 25), wire.msg.payload)
        /\ wire.amt = Len(wire.frame)

\* a list of an IPv4 and an IPv6 node, with a header whose id and
\* transaction id have several non-zero bytes, has been written
C22_Witness ==
    /\ wire.stage = "written"
    /\ wire.msg.payload.tag = "FindNodeResp"
    /\ Len(wire.msg.payload.nodes) = 2
    /\ wire.msg.payload.nodes[1].udp_addr.ip.v = 4
    /\ wire.msg.payload.nodes[2].udp_addr.ip.v = 6
    /\ wire.msg.header.node_id = 66051
    /\ wire.frame[14] = 1 /\ wire.frame[15] = 2 /\ wire.frame[16] = 3

\* the transaction table holds the same transactions for the same keys, each
\* inserted when it was (only the time since then may differ)
SameEntries(a, b) ==
    /\ DOMAIN a = DOMAIN b
    /\ \A t \in DOMAIN a : a[t].key = b[t].key /\ a[t].age >= b[t].age

\* the current lookup is the same but for the time passed
SameLookup(a, b) ==
    /\ a.tag = b.tag
    /\ a.tag = "Some" =>
         /\ a.closest = b.closest
         /\ a.final_k = b.final_k
         /\ a.intention = b.intention
         /\ SameEntries(a.transactions, b.transactions)

\* this step is the loop's recv_from call and what it does with the datagram
Receives == status = "running" /\ pc = "recv"

\* C23: when an inbound datagram does not decode, the node sends nothing,
\* leaves the routing table, key store, keep-alive table and current lookup
\* as they were, and goes on with the stale sweep of the same tick.
C23_UndecodableIsSkipped ==
    [][(Receives /\ recv'.kind \in {"error", "panic"}) =>
           /\ out' = <<>>
           /\ table' = table
           /\ key_store' = key_store
           /\ SameEntries(keep_alives', keep_alives)
           /\ SameLookup(query', query)
           /\ status' = "running"
           /\ pc' = "sweep"]_vars

\* C24: a socket I/O error, raised by the receive call or by a send, ends the
\* event loop: the node stops there, and afterwards no datagram, sweep or
\* operator command is processed.
C24_IoErrorEndsTheLoop ==
    [][/\ (Receives /\ recv'.kind = "io_error") => status' = "io_error"
       /\ status = "io_error" =>
            UNCHANGED <<table, key_store, query, keep_alives, status, pc, out,
                        to_server, reply_log>>]_vars

\* a FindNode or FindValue request is among the datagrams just sent
SendsLookupRequest(o) ==
    \E j \in 1 .. Len(o) : o[j].msg.payload.tag \in {"FindNode", "FindValue"}

\* C25: handling an operator command sends no datagram and creates no
\* lookup; in every reachable state of the loop the current lookup is absent
\* and the node has emitted no FindNode or FindValue request.
C25_NoLookupEver ==
    /\ [](query = NoQuery /\ ~SendsLookupRequest(out))
    /\ [][ConsumesCommand => (out' = <<>> /\ query' = NoQuery)]_vars

\* a Store and a Get have been handled, and after them a datagram that was
\* answered, with no lookup
C25_Witness ==
    /\ Len(reply_log) = 2
    /\ \E i, j \in 1 .. 2 : cmd_log[i].tag = "Store" /\ cmd_log[j].tag = "Get"
    /\ recv.kind = "message"
    /\ out # <<>>
    /\ query = NoQuery

\* the index of the bucket of routing table t that peers with this id belong to
BucketIndex(t, id) == leading_zeros(distance(t.this_node.id, id)) + 1

\* this step handles a PingResp by which the oldest peer of a full bucket
\* answers the probe sent to it
OldestAnswersProbe ==
    /\ Receives /\ recv'.kind = "message"
    /\ recv'.message.payload.tag = "PingResp"
    /\ LET id == recv'.message.header.node_id
           tx == recv'.message.header.transaction_id
           b == table.buckets[BucketIndex(table, id)]
       IN  /\ tx \in DOMAIN keep_alives
           /\ tx \in DOMAIN probes /\ probes[tx].id = id
           /\ Len(b.data) = b.max_size
           /\ b.data[1].id = id

\* C26 as stated: processing that PingResp removes the keep-alive entry and
\* leaves the bucket untouched, the responding peer still at the front of the
\* active list.
C26_PingRespLeavesBucket ==
    [][OldestAnswersProbe =>
          /\ recv'.message.header.transaction_id \notin DOMAIN keep_alives'
          /\ table' = table]_vars

\* C26, amended: processing that PingResp removes the keep-alive entry and
\* moves the responding peer from the front to the back of its bucket's
\* active list, the other active peers keeping their order; the waiting list
\* and the other buckets are untouched and no probe is sent.
C26_PingRespMovesPeerToBack ==
    [][OldestAnswersProbe =>
          LET id == recv'.message.header.node_id
              i == BucketIndex(table, id)
              b == table.buckets[i]
          IN  /\ recv'.message.header.transaction_id \notin DOMAIN keep_alives'
              /\ table'.buckets[i].data =
                     Append(Tail(b.data), MkNode(id, recv'.src))
              /\ table'.buckets[i].waiting = b.waiting
              /\ \A j \in DOMAIN table.buckets :
                     j # i => table'.buckets[j] = table.buckets[j]
              /\ out' = <<>>]_vars

\* the probed oldest peer has just answered: its keep-alive entry is gone
\* and it is the last of the active list of its full bucket
C26_Witness ==
    /\ recv.kind = "message"
    /\ recv.message.payload.tag = "PingResp"
    /\ LET id == recv.message.header.node_id
           tx == recv.message.header.transaction_id
           b == table.buckets[BucketIndex(table, id)]
       IN  /\ tx \in DOMAIN probes /\ probes[tx].id = id
           /\ tx \notin DOMAIN keep_alives
           /\ Len(b.data) = b.max_size
           /\ Last(b.data).id = id
           /\ b.waiting # <<>>

\* the positions of the Ping requests among the datagrams o
PingsIn(o) == {j \in 1 .. Len(o) : o[j].msg.payload.tag = "Ping"}

\* C27: for every decoded inbound message, whatever its payload, the sender
\* {id: header.node_id, addr: src} is inserted into the routing table before
\* the payload is dispatched (also when the dispatch then fails); and if and
\* only if that insert asks for a probe of old, exactly one Ping is sent, to
\* old's address and ahead of any reply, and its tx, when it is not the tx of
\* the message being handled, is recorded in keep_alives.
C27_SenderInsertedThenProbe ==
    [][(Receives /\ recv'.kind = "message") =>
          LET sender == MkNode(recv'.message.header.node_id, recv'.src)
              ins == RoutingTable_insert(table, sender)
              probe == ins.result.tag = "Ping"
          IN  /\ table' = ins.table
              /\ status' = "running" =>
                   /\ probe <=> PingsIn(out') # {}
                   /\ probe =>
                        /\ PingsIn(out') = {1}
                        /\ out'[1].to = ins.result.node.udp_addr
                        /\ LET tx == out'[1].msg.header.transaction_id
                           IN  tx # recv'.message.header.transaction_id =>
                                   /\ tx \in DOMAIN keep_alives'
                                   /\ keep_alives'[tx].age = 0]_vars

\* a request from a new peer met a full bucket: the oldest peer was sent a
\* Ping whose tx is in keep_alives, and then the request was answered
C27_Witness ==
    /\ recv.kind = "message"
    /\ recv.message.payload.tag = "Store"
    /\ status = "running"
    /\ Len(out) = 2
    /\ out[1].msg.payload.tag = "Ping"
    /\ out[1].msg.header.transaction_id \in DOMAIN keep_alives
    /\ out[2].msg.payload.tag = "StoreResp"
    /\ \E i \in 1 .. KEY_SIZE :
         /\ table.buckets[i].waiting # <<>>
         /\ Last(table.buckets[i].waiting).id = recv.message.header.node_id

\* C28: every entry of a transaction table maps the tx of an outbound RPC to
\* the id of the remote peer the RPC was sent to; a keep-alive entry records
\* the id of the probed oldest peer.
C28_EntryRecordsRemotePeer ==
    \A tx \in DOMAIN keep_alives :
        tx \in DOMAIN probes => keep_alives[tx].key = probes[tx].id

\* the ids of the shortlist peers of lookup q with this status
PeersWith(q, st) ==
    {q.closest[j].node.id : j \in {h \in 1 .. Len(q.closest) : q.closest[h].status = st}}

\* C29: when the lookup RPC sent to a shortlist peer has had no response
\* within the deadline, the next stale sweep removes that peer from the
\* shortlist: after a sweep that finds every outstanding request of the
\* lookup stale, none of the peers that were waited for is in the shortlist.
C29_SweepDropsSilentLookupPeer ==
    [][(/\ SweepStep
        /\ DeadlinesPassed
        /\ Cardinality(PeersWith(query, Started)) = Cardinality(DOMAIN query.transactions)
        /\ PeersWith(query, Started) # {}
        /\ status' = "running"
        /\ query'.tag = "Some") =>
          \A j \in 1 .. Len(query'.closest) :
              query'.closest[j].node.id \notin PeersWith(query, Started)]_vars

\* how many times key is in the report buf
TimesIn(buf, key) == Cardinality({j \in 1 .. Len(buf) : buf[j] = key})

\* C30: a sweep of a transaction table removes an entry if and only if more
\* than 5 seconds have passed since it was inserted, reports the recorded id
\* of each removed entry exactly once, and leaves every other entry unchanged.
C30_SweepRemovesExactlyTheStale ==
    [][(SweepStep /\ status' = "running" /\ query.tag = "None") =>
          LET removed == DOMAIN keep_alives \ DOMAIN keep_alives'
          IN  /\ DOMAIN keep_alives' \subseteq DOMAIN keep_alives
              /\ \A tx \in DOMAIN keep_alives :
                     tx \in removed <=> keep_alives[tx].age > 5
              /\ \A tx \in DOMAIN keep_alives' : keep_alives'[tx] = keep_alives[tx]
              /\ Len(swept') = Cardinality(removed)
              /\ \A tx \in removed :
                     TimesIn(swept', keep_alives[tx].key) =
                         Cardinality({u \in removed :
                                         keep_alives[u].key = keep_alives[tx].key})]_vars

\* a sweep has removed and reported one transaction, past its deadline, and
\* kept another that was exactly 5 seconds old
C30_Witness ==
    /\ pc = "client"
    /\ Len(swept) = 1
    /\ \E tx \in DOMAIN keep_alives : keep_alives[tx].age = 5
    /\ Cardinality(DOMAIN probes) = 2

\* C31: after any sequence of add_node, remove and update_status calls on a
\* lookup that starts with an empty shortlist, the shortlist holds at most K
\* entries, is sorted in strictly ascending distance to the target, holds no
\* id twice, and each entry's stored distance is distance(entry.id, target).
C31_ShortlistWellFormed ==
    query.tag = "Some" =>
        LET c == query.closest
        IN  /\ Len(c) <= K
            /\ \A i, j \in 1 .. Len(c) : i < j => c[i].distance < c[j].distance
            /\ \A i, j \in 1 .. Len(c) : i # j => c[i].node.id # c[j].node.id
            /\ \A j \in 1 .. Len(c) :
                  c[j].distance = distance(c[j].node.id, query.target)

\* a full shortlist whose closest entry has answered and whose farthest is
\* the peer farthest from the target
C31_Witness ==
    /\ query.tag = "Some"
    /\ Len(query.closest) = K
    /\ query.closest[1].status = Finished
    /\ query.closest[K].distance = Pow2(KEY_SIZE) - 1
    /\ query.closest[K].status = Started

\* the payloads that answer a lookup request
LookupResponses == {"FindNodeResp", "FindValueNodes", "FindValueResp"}

\* this step decodes a response to a lookup request while a lookup is active
HandlesResponse ==
    /\ Receives
    /\ query.tag = "Some"
    /\ recv'.kind = "message"
    /\ recv'.message.payload.tag \in LookupResponses

\* C32: a FindNodeResp, FindValueNodes or FindValueResp whose transaction id
\* is not outstanding in the active lookup's transaction table leaves the
\* lookup as it was (shortlist, statuses, final_k, transaction table) and
\* sends no lookup request; a response that is accepted ends the lookup or
\* takes its transaction out of the table, so that the same transaction is
\* not accepted again unless a new request was given the same id.
C32_UnsolicitedResponseIgnored ==
    [][HandlesResponse =>
          LET tx == recv'.message.header.transaction_id
          IN  IF tx \notin DOMAIN query.transactions
              THEN SameLookup(query', query) /\ ~SendsLookupRequest(out')
              ELSE \/ query'.tag = "None"
                   \/ tx \notin DOMAIN query'.transactions
                   \/ status' # "running"
                   \/ \E j \in 1 .. Len(out') :
                         /\ out'[j].msg.header.transaction_id = tx
                         /\ out'[j].msg.payload.tag \in {"FindNode", "FindValue"}]_vars

\* a shortlist peer that is still waited for has sent a response under a
\* transaction id that is not outstanding, and the lookup goes on
C32_Witness ==
    /\ pc = "sweep"
    /\ recv.kind = "message"
    /\ recv.message.payload.tag \in LookupResponses
    /\ query.tag = "Some"
    /\ recv.message.header.transaction_id \notin DOMAIN query.transactions
    /\ DOMAIN query.transactions # {}
    /\ \E j \in 1 .. Len(query.closest) :
          /\ query.closest[j].node.id = recv.message.header.node_id
          /\ query.closest[j].status = Started
    /\ out = <<>>

\* this step handles a FindNodeResp or FindValueNodes whose transaction is
\* outstanding in the active lookup
AcceptsNodes ==
    /\ HandlesResponse
    /\ recv'.message.payload.tag \in {"FindNodeResp", "FindValueNodes"}
    /\ recv'.message.header.transaction_id \in DOMAIN query.transactions

\* the shortlist of the active lookup once the nodes of the response handled
\* in this step are added and the responder is marked Finished
ShortlistAfterResponse ==
    Query_update_status(add_nodes(query, recv'.message.payload.nodes, FALSE).query,
                        recv'.message.header.node_id, Finished)

\* C33: handling an accepted FindNodeResp or FindValueNodes ends the lookup
\* only if every peer of the shortlist is then Finished: the lookup is never
\* ended while a shortlist peer is still Started or Empty.
C33_EndsOnlyWhenAllFinished ==
    [][(AcceptsNodes /\ query'.tag = "None") => Query_all_done(ShortlistAfterResponse)]_vars

\* the lookup requests among the datagrams o that went to address addr
RequestsTo(o, addr) ==
    {j \in 1 .. Len(o) : o[j].to = addr /\ o[j].msg.payload.tag \in {"FindNode", "FindValue"}}

InsertsActivePeer ==
    /\ Len(bucket_ops') = Len(bucket_ops) + 1
    /\ Last(bucket_ops').op = "insert"
    /\ \E j \in 1 .. Len(bucket.data) : bucket.data[j].id = Last(bucket_ops').id

\* C35: inserting a peer whose id is already in the bucket's active list,
\* whether or not the bucket is full, returns Inserted, moves that peer to the
\* back of the active list with the others in their order, stores the address
\* just supplied for it, leaves the length of the active list as it was and
\* pushes nothing onto the waiting stack.
C35_ReinsertMovesToBack ==
    [][InsertsActivePeer =>
          LET call == Last(bucket_ops')
              at == CHOOSE j \in 1 .. Len(bucket.data) :
                       /\ bucket.data[j].id = call.id
                       /\ \A h \in 1 .. (j - 1) : bucket.data[h].id # call.id
          IN  /\ call.result = Inserted
              /\ Len(bucket'.data) = Len(bucket.data)
              /\ Front(bucket'.data) = RemoveAt(bucket.data, at)
              /\ Last(bucket'.data) = MkNode(call.id, call.addr)
              /\ bucket'.waiting = bucket.waiting]_vars

\* a peer from the front of a full bucket with a peer waiting was heard from
\* at a new address: it is at the back with that address
C35_Witness ==
    /\ Len(bucket_ops) = K + 2
    /\ \A i \in 1 .. (K + 1) : bucket_ops[i].op = "insert" /\ bucket_ops[i].addr = "p"
    /\ \A i, j \in 1 .. (K + 1) : i # j => bucket_ops[i].id # bucket_ops[j].id
    /\ bucket_ops[K + 2].op = "insert"
    /\ bucket_ops[K + 2].id = bucket_ops[1].id
    /\ bucket_ops[K + 2].addr = "q"
    /\ Len(bucket.data) = K
    /\ Last(bucket.data) = MkNode(bucket_ops[1].id, "q")
    /\ Len(bucket.waiting) = 1

\* C36: RoutingTable::k_closest returns, for every table content, every k and
\* every target: it neither loops for ever nor faults on a shift or a bucket
\* index, also for targets other than the local id and targets whose
\* distance to the local id has its most significant bit set.
C36_KClosestReturns ==
    rt_last.op = "k_closest" => rt_last.result.outcome \notin {"panic", "hang"}

\* C37: an active lookup is never stuck: no reachable state of a lookup has
\* an Empty peer with final_k set and no transaction outstanding, and while a
\* shortlist peer is Started a transaction is outstanding in the lookup's
\* table, so that every peer waited for is answered or swept.
C37_LookupNeverStuck ==
    (status = "running" /\ query.tag = "Some") =>
        /\ ~(/\ PeersWith(query, Empty) # {}
             /\ query.final_k
             /\ DOMAIN query.transactions = {})
        /\ PeersWith(query, Started) # {} => DOMAIN query.transactions # {}

====
